---- MODULE Spec2Model ----
(***************************************************************************)
(* SynapseHA: the dual-layer cache (src/src/lib/cache.ts, CacheManager),   *)
(* the name resolver (addons/synapseha/src/lib/name-resolver.ts,           *)
(* NameResolver, and resolveEntityId of addons/mcp-ha-bridge/server.js)    *)
(* and the refresh wiring of main (src/src/lib/ha-client.ts, 124-167).     *)
(*                                                                         *)
(* Scheduling: one event loop.  Every action below is one task of the      *)
(* loop: the synchronous stretch of a method between two awaits.  The      *)
(* awaits (fs.readFile, fs.writeFile, fetchFn) are the only places where   *)
(* other tasks interleave.                                                 *)
(***************************************************************************)
EXTENDS Integers, Sequences, FiniteSets, Bags, TLC

(***************************************************************************)
(* Part 1.  CacheManager                                                   *)
(***************************************************************************)

\* new CacheManager(dir, cacheTTL = 60000): the default ttl, in ms.
CACHE_TTL == 60000

\* registerAutoRefresh(key, fetchFn, interval = 60000), and main's 60000.
REFRESH_INTERVAL == 60000

\* The clock (Date.now()) is observed every TickMs ms, MaxTicks times.
TickMs == 30000

MaxTicks == 2

\* The number of asynchronous calls that may be suspended at once.
MaxOps == 2

\* Cached payloads are opaque to the cache: two distinct ones, an older and
\* a newer.  null is neither.
Null == 0

Data == {1, 2}

MaxTime == MaxTicks * TickMs

Keys == {"entities", "devices"}

\* ttl arguments of set / getOrFetch: a short one and the default.
TTLs == {TickMs, CACHE_TTL}

\* interval arguments of registerAutoRefresh.
Intervals == {TickMs, REFRESH_INTERVAL}

\* A fetch function either always resolves or always rejects.
FetchFns == {"ok", "fail"}

\* Map.get(key) === undefined, a missing cache file, no timer.
Absent == [absent |-> TRUE]

\* CachedData<T> = { data, timestamp, ttl }  (types/index.ts 59-63)
CachedData(d, t, ttl) == [data |-> d, timestamp |-> t, ttl |-> ttl]

\* A cache file that cannot be read, or whose text JSON.parse rejects.
Unparsable == [unparsable |-> TRUE]

\* cached.data of a parsed record that has no data property: undefined.
NoData == 0 - 2

DataOf(cached) == IF "data" \in DOMAIN cached THEN cached.data ELSE NoData

\* What a cache file left in cacheDir by an earlier process can hold: no
\* file, no JSON, a record, or a JSON object that lacks one property.
DiskFiles ==
  { Absent, Unparsable, CachedData(1, 0, CACHE_TTL),
    [timestamp |-> 0, ttl |-> CACHE_TTL],
    [data |-> 1, ttl |-> CACHE_TTL],
    [data |-> 1, timestamp |-> 0] }

VARIABLES
  now,            \* Date.now()
  memoryCache,    \* CacheManager.memoryCache : key -> CachedData | Absent
  disk,           \* the files <cacheDir>/<key>.json : key -> CachedData | Absent
  refreshTimers,  \* CacheManager.refreshTimers : key -> timer | Absent
  ops,            \* the bag of suspended async calls
  ret,            \* what the call returning in this step returns
  lastSet,        \* per key, the latest set() not followed by invalidate/clear:
                  \* its record, whether it has returned, whether its file
                  \* was written
  impl,       \* which implementation this process runs
  entities,   \* NameResolver.entities / this.entities : id -> Entity
  nameIndex,  \* NameResolver.nameIndex / this.nameIndex, in insertion order
  areas,      \* NameResolver.areas / this.areas : area_id -> Area
  devices,    \* NameResolver.devices / this.devices : id -> Device
  lookup,     \* the resolveEntityId call made in this step, and its result
  pending,    \* the response the refresh's request in flight will get
  registry,   \* the list of the last build that ran to its end
  indexReady, \* this.indexReady of the bridge (server.js 57)
  transports  \* the SSE sessions of the HTTP server: sessionId -> entry

cacheVars == <<now, memoryCache, disk, refreshTimers, ops, ret, lastSet>>

resolverVars ==
  <<impl, entities, nameIndex, areas, devices, lookup, pending, registry>>

serverVars == <<indexReady, transports>>

vars == <<cacheVars, resolverVars, serverVars>>

\* now - cached.timestamp < cached.ttl   (cache.ts 35 and 45).  A missing
\* timestamp or ttl is undefined: the difference or the bound is NaN and
\* the comparison false.  Of an unparsable file nothing is compared (43).
Fresh(cached, t) ==
  /\ cached # Absent
  /\ "timestamp" \in DOMAIN cached /\ "ttl" \in DOMAIN cached
  /\ t - cached.timestamp < cached.ttl

\* Room for one more suspended call.
CanSuspend == BagCardinality(ops) < MaxOps

Suspended == BagToSet(ops)

Suspend(o) == ops (+) SetToBag({o})

Resume(o) == ops (-) SetToBag({o})

NoRet == [op |-> "none"]

NoClaim == 0 - 1

\* What get(k), called now, owes its caller when the latest set(k, v, ttl)
\* has returned and was not followed by a set, invalidate or clear of k:
\* v while now - t < ttl, null from then on.  NoClaim when there is no
\* such set.
Expected(k) ==
  IF lastSet[k] = Absent \/ ~lastSet[k].done THEN NoClaim
  ELSE IF now - lastSet[k].rec.timestamp < lastSet[k].rec.ttl
       THEN lastSet[k].rec.data
       ELSE Null

\* What the call that returns in this step hands to its caller: the value
\* (val) or the rejection (err), whether the call changed a record of
\* either tier (wrote), and for get the value owed (expect).
Returned(op, k, v, e, wrote, expect) ==
  [op |-> op, key |-> k, val |-> v, err |-> e, wrote |-> wrote,
   expect |-> expect]

\* The suspended calls, each with its history rewritten by f.
MapOps(f(_)) ==
  IF \E o \in Suspended : f(o) # o
  THEN LET RECURSIVE Map(_)
           Map(S) == IF S = {} THEN EmptyBag
                     ELSE LET o == CHOOSE x \in S : TRUE
                              one == [x \in {f(o)} |-> CopiesIn(o, ops)]
                          IN one (+) Map(S \ {o})
       IN Map(Suspended)
  ELSE ops

\* A get or getOrFetch of k is called: a suspended invalidate of k is no
\* longer the only operation on k.
Joined(k) ==
  MapOps(LAMBDA o : IF o.kind = "invalidate" /\ o.key = k
                    THEN [o EXCEPT !.alone = FALSE] ELSE o)

\* A set or invalidate of k is called: suspended gets of k started before
\* it and are owed nothing by it, and a suspended invalidate of k is no
\* longer the only operation on k.
Overtaken(k) ==
  MapOps(LAMBDA o : IF o.kind = "get" /\ o.key = k
                    THEN [o EXCEPT !.expect = NoClaim]
                    ELSE IF o.kind = "invalidate" /\ o.key = k
                    THEN [o EXCEPT !.alone = FALSE] ELSE o)

\* The timers are cancelled by clear or shutdown while calls are
\* suspended: gets are owed nothing by a clear, and a refresh whose fetch
\* is in flight has lost its timer.
Stopped(by) ==
  MapOps(LAMBDA o : IF o.kind = "get" /\ by = "clear"
                    THEN [o EXCEPT !.expect = NoClaim]
                    ELSE IF o.kind = "refresh" /\ o.phase = "fetch"
                    THEN [o EXCEPT !.cut = by] ELSE o)

InitCache ==
  /\ now = 0
  /\ memoryCache = [k \in Keys |-> Absent]
  /\ disk = [k \in Keys |-> Absent]
  /\ refreshTimers = [k \in Keys |-> Absent]
  /\ ops = EmptyBag
  /\ ret = NoRet
  /\ lastSet = [k \in Keys |-> Absent]

\* ---- the clock ----------------------------------------------------------

\* (a timer that passes over a key nothing has stored or read)
DueWhenCached(k) ==
  /\ refreshTimers[k] # Absent /\ refreshTimers[k].next <= now
  /\ memoryCache[k] # Absent

\* A timer whose time has come (setInterval fires no earlier than `next`).
Due(k) == refreshTimers[k] # Absent /\ refreshTimers[k].next <= now

\* Time passes.  The loop is never blocked for long (nothing here computes),
\* so a due timer fires before the clock is read TickMs later.
Tick ==
  /\ now + TickMs <= MaxTime
  /\ \A k \in Keys : ~Due(k)
  /\ now' = now + TickMs
  /\ ret' = NoRet
  /\ UNCHANGED <<memoryCache, disk, refreshTimers, ops, lastSet, resolverVars, serverVars>>

\* ---- get (cache.ts 32-54) -----------------------------------------------

\* The memory check of get (34-37).
MemoryHit(k) == Fresh(memoryCache[k], now)

\* get(key) up to its first await: a fresh memory record is returned at
\* once (35-37); otherwise fs.readFile is awaited (42).
Get(k) ==
  /\ IF MemoryHit(k)
     THEN /\ ret' = Returned("get", k, DataOf(memoryCache[k]), FALSE, FALSE,
                             Expected(k))
          /\ ops' = ops
     ELSE /\ CanSuspend
          /\ ops' = Joined(k) (+)
                    SetToBag({[kind |-> "get", key |-> k, phase |-> "read",
                               expect |-> Expected(k)]})
          /\ ret' = NoRet
  /\ UNCHANGED <<now, memoryCache, disk, refreshTimers, lastSet, resolverVars, serverVars>>

\* (a disk tier that serves a record of any age)
DiskAnyAge(k) == disk[k] # Absent

\* The disk check of get (43-51): the record read is served when fresh; a
\* missing file throws into the empty catch.
DiskHit(k) == Fresh(disk[k], now)

\* getOrFetch(key, fetchFn, ttl) up to its first await (75-83).
GetOrFetch(k, ttl) ==
  /\ IF MemoryHit(k)
     THEN /\ ret' = Returned("getOrFetch", k, DataOf(memoryCache[k]), FALSE,
                             FALSE, NoClaim)
          /\ ops' = ops
     ELSE /\ CanSuspend
          /\ ops' = Joined(k) (+)
                    SetToBag({[kind |-> "getOrFetch", key |-> k,
                               phase |-> "read", ttl |-> ttl, wrote |-> FALSE]})
          /\ ret' = NoRet
  /\ UNCHANGED <<now, memoryCache, disk, refreshTimers, lastSet, resolverVars, serverVars>>

\* fs.readFile of a suspended get settles (42-53): a fresh disk record is
\* promoted into memory (46) and its data returned (47); get returns,
\* getOrFetch returns what get gave unless that is null (81-83) and goes on
\* to call fetchFn when it is (85).
ReadDone(o) ==
  /\ o.phase = "read"
  /\ LET k == o.key
         hit == DiskHit(k)
     IN /\ memoryCache' = IF hit THEN [memoryCache EXCEPT ![k] = disk[k]]
                                 ELSE memoryCache
        /\ IF hit \/ o.kind = "get"
           THEN /\ ret' = Returned(o.kind, k,
                                   IF hit THEN DataOf(disk[k]) ELSE Null,
                                   FALSE, memoryCache'[k] # memoryCache[k],
                                   IF o.kind = "get" THEN o.expect ELSE NoClaim)
                /\ ops' = Resume(o)
           ELSE /\ ops' = Resume(o) (+)
                          SetToBag({[o EXCEPT !.phase = "fetch",
                                              !.wrote = memoryCache' # memoryCache]})
                /\ ret' = NoRet
  /\ UNCHANGED <<now, disk, refreshTimers, lastSet, resolverVars, serverVars>>

\* ---- set (cache.ts 56-73) -----------------------------------------------

\* (a set that leaves the memory tier alone)
SetMemorySkipped(k, rec) == memoryCache

\* The synchronous part of set(key, data, ttl): the record is stamped with
\* Date.now() and put in memory (57-64); fs.writeFile is then awaited (69).
SetMemory(k, rec) == [memoryCache EXCEPT ![k] = rec]

\* set(key, data, ttl) up to its await.
Set(k, d, ttl) ==
  /\ CanSuspend
  /\ LET rec == CachedData(d, now, ttl)
     IN /\ memoryCache' = SetMemory(k, rec)
        /\ ops' = Overtaken(k) (+)
                  SetToBag({[kind |-> "set", key |-> k, phase |-> "write",
                             rec |-> rec]})
        /\ lastSet' = [lastSet EXCEPT ![k] = [rec |-> rec, done |-> FALSE,
                                          written |-> FALSE]]
  /\ ret' = NoRet
  /\ UNCHANGED <<now, disk, refreshTimers, resolverVars, serverVars>>

\* The set a suspended call is in has returned, its file written or not:
\* the ghost notes it.
SetReturned(k, rec, written) ==
  IF lastSet[k] # Absent /\ lastSet[k].rec = rec
  THEN [lastSet EXCEPT ![k].done = TRUE, ![k].written = written]
  ELSE lastSet

\* What set's caller gets once set has returned: set resolves to nothing,
\* getOrFetch returns the fetched data (86-87), a refresh tick just ends.
AfterSet(o, written) ==
  /\ ops' = Resume(o)
  /\ lastSet' = SetReturned(o.key, o.rec, written)
  /\ ret' = IF o.kind = "refresh" THEN NoRet
            ELSE Returned(o.kind, o.key,
                          IF o.kind = "getOrFetch" THEN o.rec.data ELSE Null,
                          FALSE, TRUE, NoClaim)

\* fs.writeFile succeeded (69): the file holds the record.
WriteDone(o) ==
  /\ o.phase = "write"
  /\ disk' = [disk EXCEPT ![o.key] = o.rec]
  /\ AfterSet(o, TRUE)
  /\ UNCHANGED <<now, memoryCache, refreshTimers, resolverVars, serverVars>>

\* fs.writeFile failed (70-72): logged, the file is as it was.
WriteFail(o) ==
  /\ o.phase = "write"
  /\ AfterSet(o, FALSE)
  /\ UNCHANGED <<now, memoryCache, disk, refreshTimers, resolverVars, serverVars>>

\* ---- fetchFn settles (cache.ts 85-86 and 107-111) -----------------------

\* fetchFn resolved with d: set(key, d, ttl) runs up to its writeFile.  A
\* refresh tick stores with this.cacheTTL (108), getOrFetch with its ttl.
FetchResolve(o, d) ==
  /\ o.phase = "fetch"
  /\ o.kind = "refresh" => o.fn = "ok"
  /\ LET rec == CachedData(d, now, IF o.kind = "refresh" THEN CACHE_TTL
                                                        ELSE o.ttl)
     IN /\ memoryCache' = SetMemory(o.key, rec)
        /\ ops' = (Overtaken(o.key) (-) SetToBag({o})) (+)
                  SetToBag({IF o.kind = "refresh"
                            THEN [kind |-> o.kind, key |-> o.key,
                                  phase |-> "write", rec |-> rec,
                                  cut |-> o.cut]
                            ELSE [kind |-> o.kind, key |-> o.key,
                                  phase |-> "write", rec |-> rec]})
        /\ lastSet' = [lastSet EXCEPT ![o.key] = [rec |-> rec, done |-> FALSE,
                                              written |-> FALSE]]
  /\ ret' = NoRet
  /\ UNCHANGED <<now, disk, refreshTimers, resolverVars, serverVars>>

\* (a catch that drops the key whose fetch failed)
RejectTiersDropsKey(k) == <<[memoryCache EXCEPT ![k] = Absent], disk>>

\* The tiers after fetchFn rejected: nothing is stored, nothing is removed.
RejectTiers(k) == <<memoryCache, disk>>

\* fetchFn rejected: getOrFetch rejects with the error (no catch, 85); the
\* timer callback logs it (109-111).
FetchReject(o) ==
  /\ o.phase = "fetch"
  /\ o.kind = "refresh" => o.fn = "fail"
  /\ memoryCache' = RejectTiers(o.key)[1]
  /\ disk' = RejectTiers(o.key)[2]
  /\ ops' = Resume(o)
  /\ ret' = IF o.kind = "refresh" THEN NoRet
            ELSE Returned(o.kind, o.key, Null, TRUE,
                          o.wrote \/ RejectTiers(o.key) # <<memoryCache, disk>>,
                          NoClaim)
  /\ UNCHANGED <<now, refreshTimers, lastSet, resolverVars, serverVars>>

\* ---- auto-refresh (cache.ts 90-115) -------------------------------------

\* The key was stored, with the default ttl, by a set that has just
\* returned, and no call is in flight: main registers right after
\* `await set`, before the server accepts requests (ha-client.ts 139-144).
JustSeeded(k) ==
  /\ ops = EmptyBag
  /\ lastSet[k] # Absent
  /\ lastSet[k].done
  /\ lastSet[k].rec.timestamp = now
  /\ lastSet[k].rec.ttl = CACHE_TTL
  /\ memoryCache[k] = lastSet[k].rec

\* registerAutoRefresh(key, fetchFn, interval): the old timer of the key is
\* cleared (99-102) and a new interval timer is set (105-114).  `fired` and
\* `seeded` are history: whether it has fired, whether the key had just
\* been seeded when it was set.
RegisterAutoRefresh(k, fn, interval) ==
  /\ refreshTimers' = [refreshTimers EXCEPT ![k] =
                         [next |-> now + interval, interval |-> interval,
                          fn |-> fn, fired |-> FALSE,
                          seeded |-> JustSeeded(k)]]
  /\ ret' = NoRet
  /\ UNCHANGED <<now, memoryCache, disk, ops, lastSet, resolverVars, serverVars>>

\* The interval timer of k fires: the callback runs up to `await fetchFn()`
\* (105-107) and the timer is set for the next interval.  `cut` is history:
\* by what the timer was cancelled while this run's fetch was in flight.
TimerFire(k) ==
  /\ Due(k)
  /\ CanSuspend
  /\ refreshTimers' = [refreshTimers EXCEPT
                         ![k].next = refreshTimers[k].next + refreshTimers[k].interval,
                         ![k].fired = TRUE]
  /\ ops' = Suspend([kind |-> "refresh", key |-> k, phase |-> "fetch",
                     fn |-> refreshTimers[k].fn, cut |-> "no"])
  /\ ret' = NoRet
  /\ UNCHANGED <<now, memoryCache, disk, lastSet, resolverVars, serverVars>>

\* ---- invalidate, clear, shutdown (cache.ts 117-153) ---------------------

\* (an invalidate that leaves the file)
UnlinkSkipped(k) == disk

\* fs.unlink of the file of k (122); a missing file throws into the empty
\* catch (123-125).
Unlinked(k) == [disk EXCEPT ![k] = Absent]

\* invalidate(key) up to its await: the memory record is deleted (118) and
\* fs.unlink awaited (122).  `alone` is history: whether no other operation
\* on the key has been running since invalidate was called.
Invalidate(k) ==
  /\ CanSuspend
  /\ memoryCache' = [memoryCache EXCEPT ![k] = Absent]
  /\ ops' = Overtaken(k) (+)
            SetToBag({[kind |-> "invalidate", key |-> k, phase |-> "unlink",
                       alone |-> \A o \in Suspended : o.key # k]})
  /\ lastSet' = [lastSet EXCEPT ![k] = Absent]
  /\ ret' = NoRet
  /\ UNCHANGED <<now, disk, refreshTimers, resolverVars, serverVars>>

\* fs.unlink has settled: invalidate returns.
UnlinkDone(o) ==
  /\ o.kind = "invalidate" /\ o.phase = "unlink"
  /\ disk' = Unlinked(o.key)
  /\ ops' = Resume(o)
  /\ ret' = Returned("invalidate", o.key, Null, FALSE, TRUE, NoClaim)
  /\ UNCHANGED <<now, memoryCache, refreshTimers, lastSet, resolverVars, serverVars>>

\* (a loop that cancels no timer)
CancelledNone == refreshTimers

\* clearInterval on every timer, then refreshTimers.clear() (132-135 and
\* 149-152).
Cancelled == [k \in Keys |-> Absent]

\* clear() up to its first await: memory, timers and callbacks are cleared
\* (129-136) and fs.readdir awaited (139).
Clear ==
  /\ CanSuspend
  /\ memoryCache' = [k \in Keys |-> Absent]
  /\ refreshTimers' = Cancelled
  /\ ops' = Stopped("clear") (+)
            SetToBag({[kind |-> "clear", key |-> "", phase |-> "readdir"]})
  /\ lastSet' = [k \in Keys |-> Absent]
  /\ ret' = NoRet
  /\ UNCHANGED <<now, disk, resolverVars, serverVars>>

\* fs.readdir has listed the files there are; an unlink is started for each
\* and Promise.all awaited (140-142).
ReaddirDone(o) ==
  /\ o.kind = "clear" /\ o.phase = "readdir"
  /\ ops' = Resume(o) (+)
            SetToBag({[kind |-> "clear", key |-> "", phase |-> "unlink",
                       files |-> {k \in Keys : disk[k] # Absent}]})
  /\ ret' = NoRet
  /\ UNCHANGED <<now, memoryCache, disk, refreshTimers, lastSet, resolverVars, serverVars>>

\* The unlinks have settled: the files that were listed are gone and clear
\* returns (a failed unlink is logged, 143-145).
ClearDone(o) ==
  /\ o.kind = "clear" /\ o.phase = "unlink"
  /\ disk' = [k \in Keys |-> IF k \in o.files THEN Absent ELSE disk[k]]
  /\ ops' = Resume(o)
  /\ ret' = Returned("clear", "", Null, FALSE, TRUE, NoClaim)
  /\ UNCHANGED <<now, memoryCache, refreshTimers, lastSet, resolverVars, serverVars>>

\* shutdown(): the timers are cancelled (148-153); synchronous.
Shutdown ==
  /\ refreshTimers' = Cancelled
  /\ ops' = Stopped("shutdown")
  /\ ret' = Returned("shutdown", "", Null, FALSE, FALSE, NoClaim)
  /\ UNCHANGED <<now, memoryCache, disk, lastSet, resolverVars, serverVars>>

(***************************************************************************)
(* Part 2.  NameResolver (name-resolver.ts) and the bridge's index and     *)
(* resolveEntityId (server.js)                                             *)
(***************************************************************************)

\* A string is a sequence of one-character strings; '' is << >>.
\* A missing property, argument or map entry (undefined, null).
Undefined == <<"undefined">>

\* The null that resolveEntityId returns.
NotFound == <<"null">>

\* A TypeError thrown by a method call on undefined.
TypeError == <<"TypeError">>

\* !x, for x a string or undefined.
Falsy(x) == x = Undefined \/ x = << >>

UpperCase ==
  <<"A", "B", "C", "D", "E", "F", "G", "H", "I", "J", "K", "L", "M", "N",
    "O", "P", "Q", "R", "S", "T", "U", "V", "W", "X", "Y", "Z">>

LowerCase ==
  <<"a", "b", "c", "d", "e", "f", "g", "h", "i", "j", "k", "l", "m", "n",
    "o", "p", "q", "r", "s", "t", "u", "v", "w", "x", "y", "z">>

Digits == {"0", "1", "2", "3", "4", "5", "6", "7", "8", "9"}

\* The characters of the class [a-z0-9].
AlphaNumeric == {LowerCase[j] : j \in 1..26} \cup Digits

\* String.prototype.toLowerCase
toLowerCase(s) ==
  [i \in 1..Len(s) |->
     IF \E j \in 1..26 : UpperCase[j] = s[i]
     THEN LowerCase[CHOOSE j \in 1..26 : UpperCase[j] = s[i]]
     ELSE s[i]]

\* .replace(/[^a-z0-9]/g, '_'): every other character becomes a '_' of
\* its own.
RECURSIVE ReplaceEach(_, _)
ReplaceEach(s, inRun) ==
  IF s = << >> THEN << >>
  ELSE (IF Head(s) \in AlphaNumeric THEN <<Head(s)>> ELSE <<"_">>)
         \o ReplaceEach(Tail(s), FALSE)

\* .replace(/[^a-z0-9]+/g, '_'): each maximal run of other characters
\* becomes one '_'.  inRun: the previous character was of such a run.
RECURSIVE ReplaceRuns(_, _)
ReplaceRuns(s, inRun) ==
  IF s = << >> THEN << >>
  ELSE IF Head(s) \in AlphaNumeric
       THEN <<Head(s)>> \o ReplaceRuns(Tail(s), FALSE)
       ELSE (IF inRun THEN << >> ELSE <<"_">>) \o ReplaceRuns(Tail(s), TRUE)

\* .replace(/^_+|_+$/g, ''), the leading part
RECURSIVE TrimStart(_)
TrimStart(s) == IF s # << >> /\ Head(s) = "_" THEN TrimStart(Tail(s)) ELSE s

\* .replace(/^_+|_+$/g, ''), the trailing part
RECURSIVE TrimEnd(_)
TrimEnd(s) ==
  IF s # << >> /\ s[Len(s)] = "_" THEN TrimEnd(SubSeq(s, 1, Len(s) - 1)) ELSE s

\* The steps of normalizeName in another order: strip first, replace after.
normalizeStripFirst(name) ==
  IF name = Undefined THEN << >>
  ELSE ReplaceRuns(TrimEnd(TrimStart(toLowerCase(name))), FALSE)

\* normalizeName(name): '' for a missing name, else lowercase, runs of
\* non-alphanumerics to '_', no leading or trailing '_'.
normalizeName(name) ==
  IF name = Undefined THEN << >>
  ELSE TrimEnd(TrimStart(ReplaceRuns(toLowerCase(name), FALSE)))

\* String.prototype.includes
includes(s, sub) ==
  \E i \in 0..(Len(s) - Len(sub)) : SubSeq(s, i + 1, i + Len(sub)) = sub

\* String.prototype.startsWith
startsWith(s, prefix) ==
  Len(prefix) <= Len(s) /\ SubSeq(s, 1, Len(prefix)) = prefix

\* id.indexOf('.') + 1: the place of the first '.', 0 when there is none.
FirstDot(id) ==
  IF \E i \in 1..Len(id) : id[i] = "."
  THEN CHOOSE i \in 1..Len(id) :
         id[i] = "." /\ \A j \in 1..(i - 1) : id[j] # "."
  ELSE 0

\* id.split('.').slice(1).join(' ')
SlugOf(id) ==
  IF FirstDot(id) = 0 THEN << >>
  ELSE [i \in 1..(Len(id) - FirstDot(id)) |->
          IF id[i + FirstDot(id)] = "." THEN " " ELSE id[i + FirstDot(id)]]

\* id.replace('.', ' '): a string pattern replaces the first occurrence.
ReplaceFirstDot(id) ==
  [i \in 1..Len(id) |-> IF i = FirstDot(id) THEN " " ELSE id[i]]

\* ---- the registries used as inputs --------------------------------------

\* The longest entity list passed to setEntities / fetched by a refresh.
MaxEntities == 2

\* An Entity (types/index.ts 8-19); the attributes the resolver and the
\* bridge read (friendly_name, area_id, floor, device_id) are flattened.
Entity(id, friendly, area, floor, device) ==
  [entity_id |-> id, friendly_name |-> friendly, area_id |-> area,
   floor |-> floor, device_id |-> device]

FanBed == <<"f", "a", "n", ".", "b", "e", "d">>
FanOff == <<"f", "a", "n", ".", "o", "f", "f">>
LedFan == <<"l", "e", "d", ".", "f", "a", "n">>
LedTv == <<"l", "e", "d", ".", "t", "v">>
OfficeTube == <<"l", "i", "g", "h", "t", ".", "s", "a", "m", "_", "o", "f", "f", "i", "c", "e", "_", "t", "u", "b", "e">>
OfficeLights == <<"o", "f", "f", "i", "c", "e", " ", "l", "i", "g", "h", "t", "s">>
OfficeLight == <<"o", "f", "f", "i", "c", "e", " ", "l", "i", "g", "h", "t">>
A1 == <<"a", "1">>
A2 == <<"a", "2">>
D1 == <<"d", "1">>
D2 == <<"d", "2">>
Up == <<"u", "p">>
Down == <<"d", "o", "w", "n">>

\* Entities of a Home Assistant registry: two fans called 'Fan', one in the
\* bedroom and one in the office, with the area recorded on the entity or
\* only on its device; a light also called 'Fan'; one entity without a
\* friendly name; the tube light.sam_office_tube called 'office lights'.
Pool ==
  { Entity(FanBed, <<"F", "a", "n">>, A1, Up, Undefined),
    Entity(FanBed, <<"F", "a", "n">>, Undefined, Undefined, D1),
    Entity(FanOff, <<"F", "a", "n">>, Undefined, Undefined, D2),
    Entity(LedFan, <<"F", "a", "n">>, A2, Down, Undefined),
    Entity(LedTv, Undefined, A1, Undefined, Undefined),
    Entity(OfficeTube, OfficeLights, A2, Undefined, Undefined) }

\* A record of the states response without entity_id.
Malformed == Entity(Undefined, <<"F", "a", "n">>, Undefined, Undefined, Undefined)

\* The lists over S of at most MaxEntities records with distinct ids.
ListsOver(S) ==
  { l \in UNION {[1..n -> S] : n \in 0..MaxEntities} :
      \A i, j \in 1..Len(l) : i # j => l[i].entity_id # l[j].entity_id }

\* Entity[]: what setEntities is typed to take.
Lists == ListsOver(Pool)

\* What GET /api/states can deliver: any parsed JSON array.
FetchedLists == ListsOver(Pool \cup {Malformed})

\* Area (types/index.ts 53-57) and Device (40-51), the fields that are read.
Area(id, name) == [area_id |-> id, name |-> name]

Device(id, area) == [id |-> id, area_id |-> area]

AreaLists == {<< >>, <<Area(A1, <<"B", "e", "d", "r", "o", "o", "m">>), Area(A2, <<"O", "f", "f", "i", "c", "e">>)>>}

DeviceLists == {<< >>, <<Device(D1, A1), Device(D2, A2)>>}

\* The arguments of resolveEntityId (name-resolver.ts 57-63).
ExplicitIds == {Undefined, FanBed}

Names == {Undefined, <<"F", "a", "n">>, <<"a", "n">>, <<"f", "a", "n", " ", "b", "e", "d">>,
          OfficeLight}

AreaHints == {Undefined, <<"b", "e", "d", "r", "o", "o", "m">>, <<"O", "f", "f", "i", "c", "e">>}

FloorHints == {Undefined, Up}

DomainHints == {Undefined, <<"f", "a", "n">>, <<"l", "e", "d">>}

Queries ==
  [entity_id : ExplicitIds, name : Names, area : AreaHints,
   floor : FloorHints, domain : DomainHints]

\* Queries by name alone.
NameQueries ==
  {q \in Queries : q.entity_id = Undefined /\ q.area = Undefined
                   /\ q.floor = Undefined /\ q.domain = Undefined}

\* The two implementations: NameResolver (TypeScript) and the bridge
\* (server.js).
Impls == {"ts", "js"}

\* ---- the index -----------------------------------------------------------

\* nameIndex.has(key)
IndexHas(ix, key) == \E i \in 1..Len(ix) : ix[i].key = key

\* nameIndex.get(key) || []
IndexGet(ix, key) ==
  IF IndexHas(ix, key)
  THEN ix[CHOOSE i \in 1..Len(ix) : ix[i].key = key].ids
  ELSE << >>

\* (an index whose entries hold the last id only)
IndexSet(ix, key, id) ==
  IF IndexHas(ix, key)
  THEN [ix EXCEPT ![CHOOSE i \in 1..Len(ix) : ix[i].key = key].ids = <<id>>]
  ELSE Append(ix, [key |-> key, ids |-> <<id>>])

\* if (!nameIndex.has(key)) nameIndex.set(key, []); nameIndex.get(key).push(id)
IndexPush(ix, key, id) ==
  IF IndexHas(ix, key)
  THEN [ix EXCEPT ![CHOOSE i \in 1..Len(ix) : ix[i].key = key].ids = Append(@, id)]
  ELSE Append(ix, [key |-> key, ids |-> <<id>>])

\* (a set that stores nothing)
MapSetSkipped(map, key, value) == map

\* map.set(key, value)
MapSet(map, key, value) ==
  [k \in DOMAIN map \cup {key} |-> IF k = key THEN value ELSE map[k]]

\* The state of a build: the two structures, and whether the loop threw.
Building(ents, ix, threw) == [entities |-> ents, nameIndex |-> ix, threw |-> threw]

\* The loop of setEntities (name-resolver.ts 21-40) and of buildEntityIndex
\* (server.js 229-257) from element i on.  A record without entity_id makes
\* id.startsWith (server.js 242), id.split (26 / 248) or id.replace (35)
\* throw, after the statements before it have run.
RECURSIVE BuildFrom(_, _, _, _)
BuildFrom(im, list, i, st) ==
  IF i > Len(list) THEN st
  ELSE
    LET entity == list[i]
        id == entity.entity_id
        ents == MapSet(st.entities, id, entity)
    IN IF id = Undefined /\ (im = "js" \/ Falsy(entity.friendly_name))
       THEN Building(ents, st.nameIndex, TRUE)
       ELSE
         LET friendlyName == IF Falsy(entity.friendly_name)
                             THEN SlugOf(id) ELSE entity.friendly_name
             byName == IndexPush(st.nameIndex, normalizeName(friendlyName), id)
         IN IF id = Undefined
            THEN Building(ents, byName, TRUE)
            ELSE BuildFrom(im, list, i + 1,
                   Building(ents,
                            IndexPush(byName, normalizeName(ReplaceFirstDot(id)), id),
                            FALSE))

\* setEntities(list) / the synchronous rebuild of buildEntityIndex: both
\* structures are emptied, then filled element by element.
Built(im, list) == BuildFrom(im, list, 1, Building(<< >>, << >>, FALSE))

\* The map a list is turned into by setAreas / setDevices (name-resolver.ts
\* 43-55): clear, then set(item[field], item) for each of the first n items.
RECURSIVE MapOf(_, _, _)
MapOf(list, field, n) ==
  IF n = 0 THEN << >>
  ELSE MapSet(MapOf(list, field, n - 1), list[n][field], list[n])

\* ---- resolveEntityId -----------------------------------------------------

\* The loop over the entries of nameIndex (name-resolver.ts 80-84, server.js
\* 1013-1017) from entry i on: the ids of every key that contains the
\* normalized name or is contained in it.
RECURSIVE PartialMatches(_, _, _)
PartialMatches(ix, normalized, i) ==
  IF i > Len(ix) THEN << >>
  ELSE (IF includes(ix[i].key, normalized) \/ includes(normalized, ix[i].key)
        THEN ix[i].ids ELSE << >>)
       \o PartialMatches(ix, normalized, i + 1)

\* [...new Set(xs)]: the first occurrence of each element, in order.
RECURSIVE Dedup(_)
Dedup(xs) ==
  IF xs = << >> THEN << >>
  ELSE LET rest == Dedup(SubSeq(xs, 1, Len(xs) - 1))
           last == xs[Len(xs)]
       IN IF \E i \in 1..Len(rest) : rest[i] = last THEN rest
          ELSE Append(rest, last)

\* (a resolver that looks the name up exactly and nowhere else)
ExactOnly(ix, normalized) == IndexGet(ix, normalized)

\* candidates: the exact entry, else the deduplicated partial matches.
Candidates(ix, normalized) ==
  IF Len(IndexGet(ix, normalized)) = 0
  THEN Dedup(PartialMatches(ix, normalized, 1))
  ELSE IndexGet(ix, normalized)

\* (a resolver that returns only the explicit ids it knows)
HasKnownExplicitId(ents, args) ==
  ~Falsy(args.entity_id) /\ args.entity_id \in DOMAIN ents

\* if (args.entity_id) return args.entity_id
HasExplicitId(ents, args) == ~Falsy(args.entity_id)

\* The name searched for, Undefined when the call returns null before any
\* search: args.name (name-resolver.ts 69-73); name || area (server.js
\* 1004-1006).
SearchName(im, args) ==
  IF ~Falsy(args.name) THEN args.name
  ELSE IF im = "js" /\ ~Falsy(args.area) THEN args.area
  ELSE Undefined

\* (a filter that replaces the set even by an empty one)
KeepMatches(matches, filtered) == matches

\* if (matches.length > 0) filtered = matches
KeepIfAny(matches, filtered) == IF Len(matches) > 0 THEN matches ELSE filtered

\* The area filter's test (name-resolver.ts 109-116, server.js 1035-1044).
InArea(ents, ars, entityId, area) ==
  /\ entityId \in DOMAIN ents
  /\ ~Falsy(ents[entityId].area_id)
  /\ ents[entityId].area_id \in DOMAIN ars
  /\ normalizeName(ars[ents[entityId].area_id].name) = normalizeName(area)

\* The floor filter's test (name-resolver.ts 125-128, server.js 1050-1053).
OnFloor(ents, entityId, floor) ==
  entityId \in DOMAIN ents /\ ents[entityId].floor = floor

\* filtered.filter(c => c.startsWith(`${domain}.`))
DomainMatches(filtered, domain) ==
  SelectSeq(filtered, LAMBDA c : startsWith(c, domain \o <<".">>))

\* filtered[0] || null (name-resolver.ts 136); filtered[0] (server.js 1057)
BestMatch(im, filtered) ==
  IF Len(filtered) = 0 THEN (IF im = "ts" THEN NotFound ELSE Undefined)
  ELSE IF im = "ts" /\ Falsy(filtered[1]) THEN NotFound
  ELSE filtered[1]

\* (the same filters with the area filter before the domain filter)
DisambiguateAreaFirst(im, ents, ars, args, candidates) ==
  LET byArea ==
        IF ~Falsy(args.area)
        THEN KeepIfAny(SelectSeq(candidates,
                         LAMBDA c : InArea(ents, ars, c, args.area)), candidates)
        ELSE candidates
      byDomain ==
        IF ~Falsy(args.domain) /\ Len(byArea) > 1
        THEN KeepIfAny(DomainMatches(byArea, args.domain), byArea)
        ELSE byArea
      byFloor ==
        IF ~Falsy(args.floor) /\ Len(byDomain) > 1
        THEN KeepIfAny(SelectSeq(byDomain,
                         LAMBDA c : OnFloor(ents, c, args.floor)), byDomain)
        ELSE byDomain
  IN BestMatch(im, byFloor)

\* The disambiguation of two or more candidates (name-resolver.ts 96-136,
\* server.js 1024-1057).  c.startsWith throws on an id that is undefined.
Disambiguate(im, ents, ars, args, candidates) ==
  LET byDomain ==
        IF ~Falsy(args.domain)
        THEN KeepIfAny(DomainMatches(candidates, args.domain), candidates)
        ELSE candidates
      byArea ==
        IF ~Falsy(args.area) /\ Len(byDomain) > 1
        THEN KeepIfAny(SelectSeq(byDomain,
                         LAMBDA c : InArea(ents, ars, c, args.area)), byDomain)
        ELSE byDomain
      byFloor ==
        IF ~Falsy(args.floor) /\ Len(byArea) > 1
        THEN KeepIfAny(SelectSeq(byArea,
                         LAMBDA c : OnFloor(ents, c, args.floor)), byArea)
        ELSE byArea
  IN IF ~Falsy(args.domain) /\ \E i \in 1..Len(candidates) : candidates[i] = Undefined
     THEN TypeError
     ELSE BestMatch(im, byFloor)

\* A property key that is an array index: a canonical numeric string ("7",
\* "12"; not "07").
IsArrayIndex(key) ==
  /\ key # << >>
  /\ \A i \in 1..Len(key) : key[i] \in Digits
  /\ Len(key) > 1 => key[1] # "0"

\* The number such a key writes.
RECURSIVE NumericValue(_)
NumericValue(key) ==
  IF key = << >> THEN 0
  ELSE 10 * NumericValue(SubSeq(key, 1, Len(key) - 1))
       + (CHOOSE d \in 0..9 :
            <<"0", "1", "2", "3", "4", "5", "6", "7", "8", "9">>[d + 1] = key[Len(key)])

\* The entries of ix whose keys are array indices, in ascending order.
RECURSIVE IndexEntries(_, _)
IndexEntries(ix, S) ==
  IF S = {} THEN << >>
  ELSE LET least == CHOOSE i \in S :
                      \A j \in S : NumericValue(ix[i].key) <= NumericValue(ix[j].key)
       IN <<ix[least]>> \o IndexEntries(ix, S \ {least})

\* The order in which the partial-match loop meets the entries of the
\* index: nameIndex.entries() of a Map is the insertion order
\* (name-resolver.ts 80); Object.entries of the bridge's plain object
\* (server.js 1012) lists the array-index keys first, in ascending numeric
\* order, then the other keys in insertion order.
OwnEntries(im, ix) ==
  IF im = "js" /\ \E i \in 1..Len(ix) : IsArrayIndex(ix[i].key)
  THEN IndexEntries(ix, {i \in 1..Len(ix) : IsArrayIndex(ix[i].key)})
       \o SelectSeq(ix, LAMBDA e : ~IsArrayIndex(e.key))
  ELSE ix

\* resolveEntityId(args) over the structures ents, ix, ars.
resolveEntityId(im, ents, ix, ars, args) ==
  IF HasExplicitId(ents, args) THEN args.entity_id
  ELSE IF SearchName(im, args) = Undefined THEN NotFound
  ELSE LET candidates == Candidates(OwnEntries(im, ix),
                                     normalizeName(SearchName(im, args)))
       IN IF Len(candidates) = 0 THEN NotFound
          ELSE IF Len(candidates) = 1 THEN candidates[1]
          ELSE Disambiguate(im, ents, ars, args, candidates)

\* ---- the resolver's operations ------------------------------------------

NoLookup == [op |-> "none"]

\* No request of a refresh is in flight.
NoFetch == [state |-> "none"]

\* The request in flight will fail (a rejected getStates; !response.ok).
Rejected == [state |-> "rejected"]

\* The request in flight will deliver this list.
Fetched(list) == [state |-> "ok", data |-> list]

\* The field initialisers (name-resolver.ts 4-7, server.js 45-51).
ResolverConstructed ==
  /\ entities = << >>
  /\ nameIndex = << >>
  /\ areas = << >>
  /\ devices = << >>
  /\ lookup = NoLookup
  /\ pending = NoFetch
  /\ registry = << >>
  /\ indexReady = FALSE
  /\ transports = << >>

\* this.indexReady once a build of the list has run: the bridge sets it
\* after the loop (server.js 264), unless the loop threw; NameResolver has
\* no such flag.
ReadyAfter(im, list) ==
  indexReady \/ (im = "js" /\ ~Built(im, list).threw)

\* nameResolver.setEntities(list) (called by main, ha-client.ts 141); for
\* the bridge, the synchronous rebuild inside buildEntityIndex.
SetEntities(list) ==
  /\ lookup = NoLookup
  /\ entities' = Built(impl, list).entities
  /\ nameIndex' = Built(impl, list).nameIndex
  /\ registry' = IF Built(impl, list).threw THEN registry ELSE list
  /\ indexReady' = ReadyAfter(impl, list)
  /\ UNCHANGED <<impl, lookup, areas, devices, pending, cacheVars, transports>>

\* setAreas(list); fetchAreas of the bridge (server.js 286-301).
SetAreas(list) ==
  /\ lookup = NoLookup
  /\ areas' = MapOf(list, "area_id", Len(list))
  /\ UNCHANGED <<impl, lookup, entities, nameIndex, devices, pending, registry, cacheVars, serverVars>>

\* setDevices(list); fetchDevices of the bridge (server.js 303-318).
SetDevices(list) ==
  /\ lookup = NoLookup
  /\ devices' = MapOf(list, "id", Len(list))
  /\ UNCHANGED <<impl, lookup, entities, nameIndex, areas, pending, registry, cacheVars, serverVars>>

\* A call of resolveEntityId(args) by a tool handler (part_007 175, 244;
\* server.js 1062): synchronous, it changes nothing but its result.
ResolveEntityId(args) ==
  /\ lookup = NoLookup
  /\ lookup' = [op |-> "resolve", args |-> args,
                result |-> resolveEntityId(impl, entities, nameIndex, areas, args)]
  /\ UNCHANGED <<impl, entities, nameIndex, areas, devices, pending, registry,
                 cacheVars, serverVars>>

\* The handler that called resolveEntityId goes on with the result and
\* answers its request; it is one task of the loop, no other runs within.
Respond ==
  /\ lookup # NoLookup
  /\ lookup' = NoLookup
  /\ UNCHANGED <<impl, entities, nameIndex, areas, devices, pending, registry,
                 cacheVars, serverVars>>

\* (a rebuild that empties the index before it awaits the fetch)
ClearedWhileFetching(ix) == << >>

\* The index while the refresh's request is in flight: the callback awaits
\* getStates / fetch and response.json() before it touches the index.
IndexWhileFetching(ix) == ix

\* The refresh timer fires (ha-client.ts 144-145; server.js 2532-2542 and
\* 203-209): the request is sent and the callback suspends.  p is the
\* response it will get.  Requests time out well within one interval, so
\* one refresh is in flight at a time.
RefreshStart(p) ==
  /\ lookup = NoLookup
  /\ pending = NoFetch
  /\ pending' = p
  /\ nameIndex' = IndexWhileFetching(nameIndex)
  /\ UNCHANGED <<impl, lookup, entities, areas, devices, registry, cacheVars, serverVars>>

\* The response arrives: the callback resumes and rebuilds both
\* structures in one synchronous stretch (ha-client.ts 146-147 calling
\* setEntities; server.js 220-257).  What the loop throws is caught and
\* logged by the timer callback (cache.ts 109-111; server.js 281-283).
RefreshResolve ==
  /\ lookup = NoLookup
  /\ pending.state = "ok"
  /\ entities' = Built(impl, pending.data).entities
  /\ nameIndex' = Built(impl, pending.data).nameIndex
  /\ registry' = IF Built(impl, pending.data).threw THEN registry ELSE pending.data
  /\ pending' = NoFetch
  /\ indexReady' = ReadyAfter(impl, pending.data)
  /\ UNCHANGED <<impl, lookup, areas, devices, cacheVars, transports>>

\* The request fails: logged, nothing else (cache.ts 109-111; server.js
\* 211-218, 281-283).
RefreshReject ==
  /\ lookup = NoLookup
  /\ pending.state = "rejected"
  /\ pending' = NoFetch
  /\ UNCHANGED <<impl, lookup, entities, nameIndex, areas, devices, registry, cacheVars, serverVars>>

(***************************************************************************)
(* Specifications                                                          *)
(***************************************************************************)

\* The cache with an idle resolver.
Init == InitCache /\ impl = "ts" /\ ResolverConstructed

\* Either resolver with an idle cache.
InitResolver == InitCache /\ impl \in Impls /\ ResolverConstructed

\* The cache as a library: every call of the API but the timers, on one
\* key, with any payload and ttl.
NextCache ==
  \/ Tick
  \/ Get("entities")
  \/ \E ttl \in TTLs : GetOrFetch("entities", ttl)
  \/ \E o \in Suspended : ReadDone(o)
  \/ \E d \in Data, ttl \in TTLs : Set("entities", d, ttl)
  \/ \E o \in Suspended : WriteDone(o)
  \/ \E o \in Suspended : WriteFail(o)
  \/ \E o \in Suspended, d \in Data : FetchResolve(o, d)
  \/ \E o \in Suspended : FetchReject(o)

SpecCache == Init /\ [][NextCache]_vars

\* The read path: a key stored by set with the default ttl, and read by
\* get and by getOrFetch with any ttl and any fetched payload.
NextRead ==
  \/ Tick
  \/ Get("entities")
  \/ \E ttl \in TTLs : GetOrFetch("entities", ttl)
  \/ \E o \in Suspended : ReadDone(o)
  \/ Set("entities", 1, CACHE_TTL)
  \/ \E o \in Suspended : WriteDone(o)
  \/ \E o \in Suspended : WriteFail(o)
  \/ \E o \in Suspended, d \in Data : FetchResolve(o, d)
  \/ \E o \in Suspended : FetchReject(o)

SpecRead == Init /\ [][NextRead]_vars

\* The cache under auto-refresh, as main drives it: the key 'entities' is
\* seeded by set with the default ttl (ha-client.ts 139), refreshed by the
\* timer with a newer payload, and read by get / getOrFetch.
\* The durable write always lands here: its failure (cache.ts 70-72) is
\* followed under SpecCache and SpecRead.
NextRefresh ==
  \/ Tick
  \/ Get("entities")
  \/ GetOrFetch("entities", CACHE_TTL)
  \/ \E o \in Suspended : ReadDone(o)
  \/ Set("entities", 1, CACHE_TTL)
  \/ \E o \in Suspended : WriteDone(o)
  \/ \E o \in Suspended : FetchResolve(o, 2)
  \/ \E o \in Suspended : FetchReject(o)
  \/ \E fn \in FetchFns, i \in Intervals : RegisterAutoRefresh("entities", fn, i)
  \/ TimerFire("entities")

SpecRefresh == Init /\ [][NextRefresh]_vars

\* A process that starts on the cache directory an earlier one left
\* behind: the constructor and init (12-26) leave the files alone.
InitDurable ==
  /\ now = 0
  /\ memoryCache = [k \in Keys |-> Absent]
  /\ \E f \in DiskFiles :
       disk = [k \in Keys |-> IF k = "entities" THEN f ELSE Absent]
  /\ refreshTimers = [k \in Keys |-> Absent]
  /\ ops = EmptyBag
  /\ ret = NoRet
  /\ lastSet = [k \in Keys |-> Absent]
  /\ impl = "ts" /\ ResolverConstructed

\* Reads of the key, through get and through getOrFetch.
NextDurable ==
  \/ Tick
  \/ Get("entities")
  \/ GetOrFetch("entities", CACHE_TTL)
  \/ \E o \in Suspended : ReadDone(o)
  \/ \E o \in Suspended : FetchResolve(o, 2)
  \/ \E o \in Suspended : FetchReject(o)
  \/ \E o \in Suspended : WriteDone(o)
  \/ \E o \in Suspended : WriteFail(o)

SpecDurable == InitDurable /\ [][NextDurable]_vars

\* Invalidation: two keys stored by set, a refresh timer registered for
\* 'entities', and 'entities' read by get and invalidated at any moment.
NextInvalidate ==
  \/ Get("entities")
  \/ \E o \in Suspended : ReadDone(o)
  \/ \E k \in Keys : Set(k, 1, CACHE_TTL)
  \/ \E o \in Suspended : WriteDone(o)
  \/ RegisterAutoRefresh("entities", "ok", TickMs)
  \/ Invalidate("entities")
  \/ \E o \in Suspended : UnlinkDone(o)

SpecInvalidate == Init /\ [][NextInvalidate]_vars

\* Stopping: 'entities' stored by set and refreshed by a timer, with clear
\* and shutdown called at any moment.
NextStop ==
  \/ Tick
  \/ Set("entities", 1, CACHE_TTL)
  \/ \E o \in Suspended : WriteDone(o)
  \/ RegisterAutoRefresh("entities", "ok", TickMs)
  \/ TimerFire("entities")
  \/ \E o \in Suspended : FetchResolve(o, 2)
  \/ Clear
  \/ \E o \in Suspended : ReaddirDone(o)
  \/ \E o \in Suspended : ClearDone(o)
  \/ Shutdown

SpecStop == Init /\ [][NextStop]_vars

\* The resolver as a library: any registry, any query.
NextResolver ==
  \/ \E list \in Lists : SetEntities(list)
  \/ \E list \in AreaLists : SetAreas(list)
  \/ \E list \in DeviceLists : SetDevices(list)
  \/ \E args \in Queries : ResolveEntityId(args)
  \/ Respond

SpecResolver == InitResolver /\ [][NextResolver]_vars

\* Refreshes that deliver entity lists, interleaved with lookups by name.
NextRebuild ==
  \/ \E list \in Lists : RefreshStart(Fetched(list))
  \/ RefreshStart(Rejected)
  \/ RefreshResolve
  \/ RefreshReject
  \/ \E args \in NameQueries : ResolveEntityId(args)
  \/ Respond

SpecRebuild == InitResolver /\ [][NextRebuild]_vars

\* The same with any response: a list may hold a record without entity_id.
NextRebuildAny ==
  \/ \E list \in FetchedLists : RefreshStart(Fetched(list))
  \/ RefreshStart(Rejected)
  \/ RefreshResolve
  \/ RefreshReject
  \/ \E args \in NameQueries : ResolveEntityId(args)
  \/ Respond

SpecRebuildAny == InitResolver /\ [][NextRebuildAny]_vars

(***************************************************************************)
(* Claims about the cache                                                  *)
(***************************************************************************)

\* C1 (as claimed): a get(k) called after set(k, v, ttl) returned at time
\* t, with no later set, invalidate or clear of k, returns v when called
\* before t + ttl and absent (null) when called at t + ttl or later.
C1_Freshness == ret.op = "get" /\ ret.expect # NoClaim => ret.val = ret.expect

\* A refresh of k with a fetch function that always fails is registered, its
\* timer has fired and the failure has been logged.
FailedRefresh(k) ==
  /\ refreshTimers[k] # Absent
  /\ refreshTimers[k].fn = "fail"
  /\ refreshTimers[k].fired
  /\ \A o \in Suspended : o.kind # "refresh"

RefreshRejected ==
  \E o \in Suspended : o.kind = "refresh" /\ o.phase = "fetch" /\ ops' = Resume(o)

ShippedRefresh(k) ==
  /\ refreshTimers[k] # Absent
  /\ refreshTimers[k].fn = "ok"
  /\ refreshTimers[k].interval = REFRESH_INTERVAL
  /\ refreshTimers[k].seeded

\* C3 (as claimed): under the shipped configuration get('entities') never
\* returns absent, and no getOrFetch has to call its own fetch.
C3_NeverStale ==
  ShippedRefresh("entities") =>
    /\ ret.op = "get" => ret.val # Null
    /\ \A o \in Suspended : ~(o.kind = "getOrFetch" /\ o.phase = "fetch")

\* C6: when get(k) is absent and fetchFn rejects, getOrFetch rejects without
\* a value, and the call has changed no record of either tier.
C6_FetchFailurePropagates ==
  ret.op = "getOrFetch" /\ ret.err => ret.val = Null /\ ~ret.wrote

\* C6 witness: getOrFetch rejected while both tiers hold a (stale) record.
C6_Witness ==
  /\ ret.op = "getOrFetch" /\ ret.err
  /\ memoryCache["entities"] # Absent
  /\ disk["entities"] # Absent

\* The number of calls of one kind that are suspended in one phase on k.
InFlight(b, kind, phase, k) ==
  LET S == {o \in BagToSet(b) : o.kind = kind /\ o.phase = phase /\ o.key = k}
  IN BagCardinality([o \in S |-> b[o]])

\* C13: get(k) called on a fresh memory record returns its data at once
\* and changes nothing; otherwise it reads the durable record: a fresh one
\* is returned and is the memory record from then on, and when it is not
\* fresh get returns null and changes neither tier.
C13_TwoTierRead ==
  [][ \A k \in Keys :
        /\ ret'.op = "get" /\ ret'.key = k /\ ops' = ops
             => /\ Fresh(memoryCache[k], now)
                /\ ret'.val = memoryCache[k].data
                /\ memoryCache' = memoryCache /\ disk' = disk
        /\ InFlight(ops', "get", "read", k) > InFlight(ops, "get", "read", k)
             => /\ ~Fresh(memoryCache[k], now)
                /\ memoryCache' = memoryCache /\ disk' = disk
        /\ InFlight(ops', "get", "read", k) < InFlight(ops, "get", "read", k)
             => /\ ret'.op = "get" /\ ret'.key = k /\ ~ret'.err
                /\ disk' = disk
                /\ IF Fresh(disk[k], now)
                   THEN /\ ret'.val = disk[k].data
                        /\ memoryCache' = [memoryCache EXCEPT ![k] = disk[k]]
                   ELSE /\ ret'.val = Null
                        /\ memoryCache' = memoryCache ]_vars

\* C13 witness: get found the memory record stale, returned the data of the
\* fresh durable record and left that record in memory.
C13_Witness ==
  /\ ret.op = "get" /\ ret.wrote
  /\ ret.val = disk[ret.key].data
  /\ memoryCache[ret.key] = disk[ret.key]
  /\ Fresh(memoryCache[ret.key], now)

C16_ClearLeavesNothing ==
  [][ /\ InFlight(ops', "clear", "readdir", "") > InFlight(ops, "clear", "readdir", "")
           => \A k \in Keys : refreshTimers'[k] = Absent
      /\ \A k \in Keys :
           InFlight(ops', "refresh", "fetch", k) > InFlight(ops, "refresh", "fetch", k)
             => refreshTimers[k] # Absent
      /\ ret'.op = "clear"
           => \A k \in Keys :
                lastSet'[k] = Absent
                  => memoryCache'[k] = Absent /\ disk'[k] = Absent ]_vars

\* C17: shutdown leaves no timer registered and changes neither tier nor
\* the calls in flight; no refresh fetch starts while no timer is
\* registered; and a refresh whose fetch was in flight when its timer was
\* cancelled stores its result when the fetch resolves.
C17_Shutdown ==
  [][ /\ ret'.op = "shutdown"
           => /\ \A k \in Keys : refreshTimers'[k] = Absent
              /\ memoryCache' = memoryCache /\ disk' = disk
              /\ \A k \in Keys :
                   /\ InFlight(ops', "refresh", "fetch", k)
                        = InFlight(ops, "refresh", "fetch", k)
                   /\ InFlight(ops', "refresh", "write", k)
                        = InFlight(ops, "refresh", "write", k)
      /\ \A k \in Keys :
           InFlight(ops', "refresh", "fetch", k) > InFlight(ops, "refresh", "fetch", k)
             => refreshTimers[k] # Absent
      /\ \A o \in Suspended :
           o.kind = "refresh" /\ o.phase = "fetch" /\ o.cut = "shutdown"
           /\ o.fn = "ok" /\ CopiesIn(o, ops') < CopiesIn(o, ops)
             => \/ InFlight(ops', "refresh", "fetch", o.key)
                     = InFlight(ops, "refresh", "fetch", o.key)
                \/ \E d \in Data :
                     /\ memoryCache'[o.key] = CachedData(d, now, CACHE_TTL)
                     /\ InFlight(ops', "refresh", "write", o.key)
                          = InFlight(ops, "refresh", "write", o.key) + 1 ]_vars

\* C17 witness: no timer is registered, and a refresh whose fetch was in
\* flight at shutdown has since resolved and stored its result in memory.
C17_Witness ==
  /\ \A k \in Keys : refreshTimers[k] = Absent
  /\ \E o \in Suspended :
       /\ o.kind = "refresh" /\ o.phase = "write" /\ o.cut = "shutdown"
       /\ memoryCache[o.key] = o.rec
       /\ o.rec.data = 2

\* C18 (as claimed): when the file write of set(k, v, ttl) has failed, set
\* returns without throwing with {v, t, ttl} in memory, and a get(k) called
\* after it, with no later set of k, returns v while now - t < ttl;
\* likewise for the set made by getOrFetch.
C18_WriteFailureHarmless ==
  \A k \in Keys :
    lastSet[k] # Absent /\ lastSet[k].done /\ ~lastSet[k].written =>
      /\ ret.op \in {"set", "getOrFetch"} /\ ret.key = k /\ ret.wrote
           => ~ret.err /\ memoryCache[k] = lastSet[k].rec
      /\ ret.op = "get" /\ ret.key = k /\ ret.expect \in Data
           => ret.val = lastSet[k].rec.data

\* C20: getOrFetch does not look for a fetch in flight: a second call whose
\* get yields null while the first call's fetch is running starts its own
\* fetch; each fetch that resolves stores its result over whatever is in
\* memory, so that the key holds the record of the set that ran last; and
\* each call returns the result of its own fetch.
C20_NoFetchDedup ==
  [][ \A k \in Keys :
        LET fetching(b) == InFlight(b, "getOrFetch", "fetch", k)
            reading(b) == InFlight(b, "getOrFetch", "read", k)
            writing(b) == InFlight(b, "getOrFetch", "write", k)
        IN /\ fetching(ops) >= 1 /\ reading(ops') < reading(ops)
              /\ ~Fresh(disk[k], now)
                => fetching(ops') = fetching(ops) + 1
           /\ fetching(ops') < fetching(ops) /\ writing(ops') > writing(ops)
                => /\ lastSet'[k].rec = memoryCache'[k]
                   /\ memoryCache'[k].timestamp = now
                   /\ \E w \in BagToSet(ops') :
                        /\ w.kind = "getOrFetch" /\ w.phase = "write"
                        /\ w.rec = memoryCache'[k]
           /\ \A o \in Suspended :
                o.kind = "getOrFetch" /\ o.key = k /\ o.phase = "write"
                /\ CopiesIn(o, ops') < CopiesIn(o, ops)
                  => ret'.op = "getOrFetch" /\ ret'.val = o.rec.data ]_vars

\* C20 witness: two fetches of getOrFetch are in flight for one key.
C20_Witness ==
  \E k \in Keys : InFlight(ops, "getOrFetch", "fetch", k) = 2

\* The file of a key holds something other than a CachedData record.
MalformedFile(k) ==
  \/ disk[k] = Unparsable
  \/ disk[k] # Absent /\ ~({"data", "timestamp", "ttl"} \subseteq DOMAIN disk[k])

\* C19 (as claimed): when memory holds no fresh record of k and its file
\* is unreadable, unparsable or lacks one of data, timestamp, ttl, get(k)
\* returns null without throwing and getOrFetch calls fetchFn.
C19_MalformedRecordIsMiss ==
  [][ \A k \in Keys :
        MalformedFile(k) =>
          /\ InFlight(ops', "get", "read", k) < InFlight(ops, "get", "read", k)
               => ret'.op = "get" /\ ~ret'.err /\ ret'.val = Null
          /\ InFlight(ops', "getOrFetch", "read", k)
               < InFlight(ops, "getOrFetch", "read", k)
               => InFlight(ops', "getOrFetch", "fetch", k)
                    = InFlight(ops, "getOrFetch", "fetch", k) + 1 ]_vars

(***************************************************************************)
(* Claims about the resolver and the rebuild of its index                  *)
(***************************************************************************)

\* The entity ids of a list.
IdsOf(list) == {list[i].entity_id : i \in 1..Len(list)}

\* The lookup asks for entity e by its display name or by its id.
LooksUp(e) ==
  /\ lookup # NoLookup
  /\ normalizeName(lookup.args.name) \in
       { normalizeName(IF Falsy(e.friendly_name) THEN SlugOf(e.entity_id)
                       ELSE e.friendly_name),
         normalizeName(ReplaceFirstDot(e.entity_id)) }

C5_AllOrNothing ==
  /\ entities = Built(impl, registry).entities
  /\ nameIndex = Built(impl, registry).nameIndex

\* C7: a query with a non-empty explicit id X resolves to X, whatever the
\* hints and whatever the registry holds.
C7_ExplicitIdPrecedence ==
  lookup # NoLookup /\ ~Falsy(lookup.args.entity_id)
    => lookup.result = lookup.args.entity_id

\* C7 witness: an explicit id unknown to a non-empty registry, given with a
\* name that has candidates, is returned.
C7_Witness ==
  /\ lookup # NoLookup
  /\ ~Falsy(lookup.args.entity_id)
  /\ lookup.args.entity_id \notin DOMAIN entities
  /\ ~Falsy(lookup.args.name)
  /\ Len(Candidates(nameIndex, normalizeName(lookup.args.name))) > 0
  /\ lookup.result = lookup.args.entity_id

\* C8: with no explicit id the TypeScript resolver does not throw; it
\* returns not-found exactly when the name is absent or has no candidate,
\* and otherwise one of the candidates, whatever the hints.
C8_NotFoundPolicy ==
  lookup # NoLookup /\ impl = "ts" /\ Falsy(lookup.args.entity_id) =>
    LET cands == Candidates(nameIndex, normalizeName(lookup.args.name))
    IN /\ lookup.result # TypeError
       /\ lookup.result = NotFound
            <=> (Falsy(lookup.args.name) \/ Len(cands) = 0)
       /\ ~Falsy(lookup.args.name) /\ Len(cands) > 0
            => \E i \in 1..Len(cands) : cands[i] = lookup.result

\* C8 witness: several candidates, an area hint that matches none of them,
\* and a candidate is returned all the same.
C8_Witness ==
  /\ lookup # NoLookup /\ impl = "ts"
  /\ Falsy(lookup.args.entity_id)
  /\ ~Falsy(lookup.args.name) /\ ~Falsy(lookup.args.area)
  /\ LET cands == Candidates(nameIndex, normalizeName(lookup.args.name))
     IN /\ Len(cands) > 1
        /\ \A i \in 1..Len(cands) :
             ~InArea(entities, areas, cands[i], lookup.args.area)
        /\ lookup.result = cands[1]

ResolvedArea(ents, ars, devs, entityId) ==
  IF entityId \notin DOMAIN ents THEN Undefined
  ELSE IF ~Falsy(ents[entityId].area_id) /\ ents[entityId].area_id \in DOMAIN ars
       THEN ars[ents[entityId].area_id].name
  ELSE IF /\ ents[entityId].device_id \in DOMAIN devs
          /\ ~Falsy(devs[ents[entityId].device_id].area_id)
          /\ devs[ents[entityId].device_id].area_id \in DOMAIN ars
       THEN ars[devs[ents[entityId].device_id].area_id].name
  ELSE Undefined

\* C10 (as claimed): with an area hint and no other hint, when some
\* candidate's area, taken from the entity or else from its device,
\* normalizes equal to the hint, the entity returned is in that area.
C10_AreaOfEntityOrDevice ==
  lookup # NoLookup /\ Falsy(lookup.args.entity_id)
  /\ ~Falsy(lookup.args.name) /\ ~Falsy(lookup.args.area)
  /\ Falsy(lookup.args.domain) /\ Falsy(lookup.args.floor) =>
    LET cands == Candidates(nameIndex, normalizeName(lookup.args.name))
        There(c) == normalizeName(ResolvedArea(entities, areas, devices, c))
                      = normalizeName(lookup.args.area)
    IN (Len(cands) > 1 /\ \E i \in 1..Len(cands) : There(cands[i]))
         => There(lookup.result)

\* The ids the index holds under the keys that satisfy P.
IdsUnder(ix, P(_)) ==
  UNION { {ix[i].ids[j] : j \in 1..Len(ix[i].ids)} :
            i \in {i \in 1..Len(ix) : P(ix[i].key)} }

InitBridge == InitCache /\ impl = "js" /\ ResolverConstructed

\* str[i] for an index past the end of the string.
NoChar == ""

\* str[i], i counted from 0.
CharAt(str, i) == IF i < Len(str) THEN str[i + 1] ELSE NoChar

\* A comparison that looks only at the positions both strings have.
MismatchInBoth(str1, str2, i) ==
  i < Len(str1) /\ i < Len(str2) /\ str1[i + 1] # str2[i + 1]

\* str1[i] !== str2[i]   (server.js 2520)
Mismatch(str1, str2, i) == CharAt(str1, i) # CharAt(str2, i)

\* The loop of fuzzyMatch (server.js 2519-2524) from position i on, with
\* the differences counted so far.
RECURSIVE FuzzyLoop(_, _, _, _)
FuzzyLoop(str1, str2, i, differences) ==
  IF i >= (IF Len(str1) > Len(str2) THEN Len(str1) ELSE Len(str2))
  THEN differences <= 2
  ELSE LET d == IF Mismatch(str1, str2, i) THEN differences + 1
                ELSE differences
       IN IF d > 2 THEN FALSE ELSE FuzzyLoop(str1, str2, i + 1, d)

\* fuzzyMatch(str1, str2)   (server.js 2512-2525)
fuzzyMatch(str1, str2) ==
  IF Len(str1) - Len(str2) > 2 \/ Len(str2) - Len(str1) > 2 THEN FALSE
  ELSE FuzzyLoop(str1, str2, 0, 0)

\* ---- the tokens compared ------------------------------------------------

\* The longest token made of the two letters below.
MaxWordLen == 4

Ligt == <<"l", "i", "g", "t">>
Light == <<"l", "i", "g", "h", "t">>
Television == <<"t", "e", "l", "e", "v", "i", "s", "i", "o", "n">>

\* Every token of at most MaxWordLen letters over {a, b}, and the three
\* tokens of the examples.
Words ==
  UNION {[1..n -> {"a", "b"}] : n \in 0..MaxWordLen}
    \cup {Ligt, Light, Television}

\* A call of fuzzyMatch(str1, str2) by the scoring loop (server.js 2378,
\* 2384).
FuzzyMatch(str1, str2) ==
  /\ lookup = NoLookup
  /\ lookup' = [op |-> "fuzzyMatch", args |-> <<str1, str2>>,
                result |-> fuzzyMatch(str1, str2)]
  /\ UNCHANGED <<impl, entities, nameIndex, areas, devices, pending, registry,
                 cacheVars, serverVars>>

NextWords ==
  \/ lookup = NoLookup /\ \E str1 \in Words, str2 \in Words :
                            FuzzyMatch(str1, str2)
  \/ Respond

SpecWords == InitBridge /\ [][NextWords]_vars

(***************************************************************************)
(* Claims about the fuzzy search                                           *)
(***************************************************************************)

\* C24: fuzzyMatch(a, b) is true exactly when the lengths of a and b
\* differ by at most 2 and at most 2 of the positions below the longer
\* length hold different characters, a missing character counting as a
\* difference; 'ligt' near-matches 'light', 'light' does not near-match
\* 'television'.
C24_NearMatch ==
  lookup # NoLookup /\ lookup.op = "fuzzyMatch" =>
    LET a == lookup.args[1]
        b == lookup.args[2]
        longer == IF Len(a) > Len(b) THEN Len(a) ELSE Len(b)
        differing == {i \in 1..longer :
                        i > Len(a) \/ i > Len(b) \/ a[i] # b[i]}
    IN /\ lookup.result
           = ( /\ Len(a) - Len(b) <= 2 /\ Len(b) - Len(a) <= 2
               /\ Cardinality(differing) <= 2 )
       /\ lookup.args = <<Ligt, Light>> => lookup.result
       /\ lookup.args = <<Light, Television>> => ~lookup.result

\* C24 witness: 'ligt' has been compared with 'light' and near-matches it.
C24_Witness ==
  /\ lookup # NoLookup /\ lookup.op = "fuzzyMatch"
  /\ lookup.args = <<Ligt, Light>>
  /\ lookup.result

(***************************************************************************)
(* Part 4.  normalizeName on its own                                       *)
(***************************************************************************)

\* The longest string of the characters below that is normalized.
MaxNameLen == 3

\* An upper-case letter, its lower-case letter, a digit, the separator the
\* result is written with, and two other non-alphanumeric characters.
NameChars == {"A", "a", "1", "_", " ", "-"}

\* The names normalized one at a time: a missing name, and every string of
\* at most MaxNameLen of the characters.
RawNames == {Undefined} \cup UNION {[1..n -> NameChars] : n \in 0..MaxNameLen}

LivingRoom == <<"L", "i", "v", "i", "n", "g", " ", "R", "o", "o", "m">>
LivingDashRoom == <<"l", "i", "v", "i", "n", "g", "-", "r", "o", "o", "m">>
LivingUnderRoom == <<"l", "i", "v", "i", "n", "g", "_", "r", "o", "o", "m">>
LivingSpacesRoom == <<"L", "I", "V", "I", "N", "G", " ", " ", " ", "R", "O", "O", "M">>

\* The names normalized two at a time: spellings of the same words, and
\* the four spellings of the example.
Spellings ==
  UNION {[1..n -> {"A", "a", "_", " "}] : n \in 0..MaxNameLen}
    \cup {LivingRoom, LivingDashRoom, LivingUnderRoom, LivingSpacesRoom}

\* normalizeName(name), and normalizeName of what it returned (the index
\* key of a name is normalized again when the key is looked up as a name).
NormalizeName(name) ==
  /\ lookup = NoLookup
  /\ lookup' = [op |-> "normalizeName", args |-> <<name>>,
                result |-> <<normalizeName(name)>>,
                again |-> <<normalizeName(normalizeName(name))>>]
  /\ UNCHANGED <<impl, entities, nameIndex, areas, devices, pending, registry,
                 cacheVars, serverVars>>

\* normalizeName of two names: the display name at the build
\* (name-resolver.ts 27, server.js 249) and the name asked for
\* (name-resolver.ts 74, server.js 1007).
NormalizeBoth(shown, asked) ==
  /\ lookup = NoLookup
  /\ lookup' = [op |-> "normalizeBoth", args |-> <<shown, asked>>,
                result |-> <<normalizeName(shown), normalizeName(asked)>>]
  /\ UNCHANGED <<impl, entities, nameIndex, areas, devices, pending, registry,
                 cacheVars, serverVars>>

\* A name is normalized while no call is being answered (the guard stands
\* before the choice of the names).
NextNormalize ==
  \/ lookup = NoLookup /\ \E name \in RawNames : NormalizeName(name)
  \/ lookup = NoLookup /\ \E shown \in Spellings, asked \in Spellings :
                            NormalizeBoth(shown, asked)
  \/ Respond

SpecNormalize == InitResolver /\ [][NextNormalize]_vars

(***************************************************************************)
(* Claims about normalizeName                                              *)
(***************************************************************************)

\* C25: normalize(normalize(s)) = normalize(s) for every string s, also
\* for a string of non-alphanumeric characters only, for one with leading
\* or trailing separators, and for the empty string.
C25_NormalizeIdempotent ==
  lookup.op = "normalizeName" => lookup.again = lookup.result

\* C25 witness: a name with a leading and a trailing separator around a
\* letter has been normalized to that letter, twice.
C25_Witness ==
  /\ lookup.op = "normalizeName"
  /\ lookup.args = << <<"_", "A", " ">> >>
  /\ lookup.result = << <<"a">> >>
  /\ lookup.again = << <<"a">> >>

\* The words of a string: its maximal runs of letters and digits, in lower
\* case.  cur: the run being read.
RECURSIVE WordsOf(_, _)
WordsOf(s, cur) ==
  IF s = << >> THEN (IF cur = << >> THEN << >> ELSE <<cur>>)
  ELSE LET c == toLowerCase(<<Head(s)>>)[1]
       IN IF c \in AlphaNumeric
          THEN WordsOf(Tail(s), cur \o <<c>>)
          ELSE (IF cur = << >> THEN << >> ELSE <<cur>>)
                 \o WordsOf(Tail(s), << >>)

\* C26: two strings with the same words, whatever the case of their
\* letters and whatever runs of other characters separate or surround the
\* words, normalize to the same token; 'Living Room', 'living-room',
\* 'living_room' and 'LIVING   ROOM' all normalize to one token.
C26_NormalizeCollision ==
  lookup.op = "normalizeBoth" =>
    /\ WordsOf(lookup.args[1], << >>) = WordsOf(lookup.args[2], << >>)
         => lookup.result[1] = lookup.result[2]
    /\ lookup.args[1] = LivingRoom
         /\ lookup.args[2] \in {LivingDashRoom, LivingUnderRoom, LivingSpacesRoom}
         => lookup.result[1] = lookup.result[2]

\* C26 witness: 'Living Room' and 'LIVING   ROOM' have been normalized to
\* the same token.
C26_Witness ==
  /\ lookup.op = "normalizeBoth"
  /\ lookup.args = <<LivingRoom, LivingSpacesRoom>>
  /\ lookup.result = <<<<"l", "i", "v", "i", "n", "g", "_", "r", "o", "o", "m">>, <<"l", "i", "v", "i", "n", "g", "_", "r", "o", "o", "m">>>>

(***************************************************************************)
(* Part 5.  Spellings of a name asked of the resolver                      *)
(***************************************************************************)

LightLivingRoom == <<"l", "i", "g", "h", "t", ".", "l", "i", "v", "i", "n", "g", "_", "r", "o", "o", "m">>

\* A registry with the light light.living_room called 'Living Room'.
LivingPool ==
  { Entity(LightLivingRoom, LivingRoom, Undefined, Undefined, Undefined),
    Entity(FanOff, <<"F", "a", "n">>, Undefined, Undefined, D2),
    Entity(LedTv, Undefined, A1, Undefined, Undefined),
    Entity(OfficeTube, OfficeLights, A2, Undefined, Undefined) }

\* The spellings asked for, by name alone.
LivingQueries ==
  { [entity_id |-> Undefined, name |-> n, area |-> Undefined,
     floor |-> Undefined, domain |-> Undefined] :
      n \in {LivingRoom, <<"l", "i", "v", "i", "n", "g", " ", "r", "o", "o", "m">>, <<"l", "i", "v", "i", "n", "g", "r", "o", "o", "m">>} }

NextSpelling ==
  \/ \E list \in ListsOver(LivingPool) : SetEntities(list)
  \/ \E args \in LivingQueries : ResolveEntityId(args)
  \/ Respond

SpecSpelling == InitResolver /\ [][NextSpelling]_vars

\* C27 (as claimed): with light.living_room called 'Living Room' in the
\* registry, resolve({name: 'livingroom'}) returns light.living_room, as
\* resolve({name: 'living room'}) does.
C27_LivingroomResolves ==
  ( /\ lookup.op = "resolve"
    /\ lookup.args.name = <<"l", "i", "v", "i", "n", "g", "r", "o", "o", "m">>
    /\ LightLivingRoom \in DOMAIN entities )
  => /\ lookup.result = LightLivingRoom
     /\ lookup.result
          = resolveEntityId(impl, entities, nameIndex, areas,
                            [lookup.args EXCEPT !.name = <<"l", "i", "v", "i", "n", "g", " ", "r", "o", "o", "m">>])

(***************************************************************************)
(* Part 6.  searchEntitiesFuzzy (server.js 2324-2510)                      *)
(***************************************************************************)

\* limit = 10 when the argument is missing (server.js 2325).
DefaultLimit == 10

\* The limit argument left out.
NoLimit == 0

\* The points of a name word and of an id word against a query word
\* (server.js 2374-2385).
NameWordPoints == [same |-> 100, starts |-> 50, inside |-> 25, near |-> 15]

IdWordPoints == [same |-> 80, starts |-> 40, inside |-> 20, near |-> 10]

\* normalized.split("_").filter(Boolean); cur: the word being read.
RECURSIVE SplitWords(_, _)
SplitWords(s, cur) ==
  IF s = << >> THEN (IF cur = << >> THEN << >> ELSE <<cur>>)
  ELSE IF Head(s) = "_"
       THEN (IF cur = << >> THEN << >> ELSE <<cur>>)
              \o SplitWords(Tail(s), << >>)
       ELSE SplitWords(Tail(s), cur \o <<Head(s)>>)

\* A near-match test that tolerates one difference only.
WordPointsStrict(word, qWord, points) ==
  IF word = qWord THEN points.same
  ELSE IF startsWith(word, qWord) THEN points.starts
  ELSE IF includes(word, qWord) THEN points.inside
  ELSE IF fuzzyMatch(word, qWord)
          /\ Cardinality({i \in 0..(Len(word) + Len(qWord)) :
                            Mismatch(word, qWord, i)}) <= 1
       THEN points.near
  ELSE 0

\* The if / else-if chain of one word pair (server.js 2375-2378, 2381-2384).
WordPoints(word, qWord, points) ==
  IF word = qWord THEN points.same
  ELSE IF startsWith(word, qWord) THEN points.starts
  ELSE IF includes(word, qWord) THEN points.inside
  ELSE IF fuzzyMatch(word, qWord) THEN points.near
  ELSE 0

\* The two nested loops over query words and words (server.js 2373-2386),
\* the first n pairs of them.
RECURSIVE WordsScore(_, _, _, _)
WordsScore(queryWords, words, points, n) ==
  IF n = 0 THEN 0
  ELSE WordPoints(words[((n - 1) % Len(words)) + 1],
                  queryWords[((n - 1) \div Len(words)) + 1], points)
         + WordsScore(queryWords, words, points, n - 1)

\* The device that lists the entity among its entities (server.js 2397-
\* 2399), as the set of such devices.
DevicesListing(devs, id) ==
  {d \in DOMAIN devs :
     /\ "entities" \in DOMAIN devs[d]
     /\ \E i \in 1..Len(devs[d].entities) : devs[d].entities[i] = id}

\* entityArea (server.js 2391-2403): the area of the entity's own area_id,
\* else the area of the device that lists the entity; Undefined for none.
EntityArea(ars, devs, id, entity) ==
  IF ~Falsy(entity.area_id) /\ entity.area_id \in DOMAIN ars
  THEN ars[entity.area_id]
  ELSE IF DevicesListing(devs, id) # {}
       THEN LET device == devs[CHOOSE d \in DevicesListing(devs, id) : TRUE]
            IN IF ~Falsy(device.area_id) /\ device.area_id \in DOMAIN ars
               THEN ars[device.area_id]
               ELSE [name |-> Undefined]
       ELSE [name |-> Undefined]

\* The score of one entity (server.js 2337-2416).
Score(ars, devs, id, entity, args) ==
  LET normalizedQuery == normalizeName(args.query)
      queryWords == SplitWords(normalizedQuery, << >>)
      friendlyName == IF Falsy(entity.friendly_name) THEN id
                      ELSE entity.friendly_name
      normalizedName == normalizeName(friendlyName)
      normalizedId == normalizeName(id)
      nameWords == SplitWords(normalizedName, << >>)
      idWords == SplitWords(normalizedId, << >>)
      entityArea == EntityArea(ars, devs, id, entity)
  IN (IF normalizedName = normalizedQuery \/ normalizedId = normalizedQuery
      THEN 1000 ELSE 0)
     + (IF startsWith(normalizedName, normalizedQuery)
           \/ startsWith(normalizedId, normalizedQuery)
        THEN 500 ELSE 0)
     + (IF includes(normalizedName, normalizedQuery) THEN 250 ELSE 0)
     + (IF includes(normalizedId, normalizedQuery) THEN 200 ELSE 0)
     + WordsScore(queryWords, nameWords, NameWordPoints,
                  Len(queryWords) * Len(nameWords))
     + WordsScore(queryWords, idWords, IdWordPoints,
                  Len(queryWords) * Len(idWords))
     + (IF ~Falsy(args.domain_hint)
           /\ startsWith(id, args.domain_hint \o <<".">>)
        THEN 150 ELSE 0)
     + (IF ~Falsy(args.area_hint) /\ entityArea.name # Undefined
           /\ normalizeName(entityArea.name) = normalizeName(args.area_hint)
        THEN 150 ELSE 0)
     - (IF entity.state \in {"unavailable", "unknown"} THEN 50 ELSE 0)

\* score >= 500 ? "high" : score >= 100 ? "medium" : "low"   (server.js 2457)
Relevance(score) ==
  IF score >= 500 THEN "high" ELSE IF score >= 100 THEN "medium" ELSE "low"

\* Object.entries(this.entities): the ids in the order in which the build
\* inserted them, which is the order of the list it was built from.
EntriesOrder(list, ents) ==
  LET ids == Dedup([i \in 1..Len(list) |-> list[i].entity_id])
  IN SelectSeq(ids, LAMBDA id : id \in DOMAIN ents)

\* The loop over the entities (server.js 2337-2460) from entry i on: an
\* entry with a positive score is pushed.
RECURSIVE Scored(_, _, _, _, _, _)
Scored(order, ents, ars, devs, args, i) ==
  IF i > Len(order) THEN << >>
  ELSE LET id == order[i]
           score == Score(ars, devs, id, ents[id], args)
       IN (IF score > 0
           THEN <<[entity_id |-> id, score |-> score,
                   relevance |-> Relevance(score)]>>
           ELSE << >>)
            \o Scored(order, ents, ars, devs, args, i + 1)

\* A sort that puts an entry before the entries of equal score that came
\* before it.
InsertBeforeEqual(sorted, x) ==
  LET before == SelectSeq(sorted, LAMBDA y : y.score > x.score)
      after == SelectSeq(sorted, LAMBDA y : y.score <= x.score)
  IN before \o <<x>> \o after

\* One insertion of the stable sort: x goes behind every entry whose score
\* is not smaller.
InsertByScore(sorted, x) ==
  LET before == SelectSeq(sorted, LAMBDA y : y.score >= x.score)
      after == SelectSeq(sorted, LAMBDA y : y.score < x.score)
  IN before \o <<x>> \o after

\* scored.sort((a, b) => b.score - a.score), the first n entries sorted
\* (Array.prototype.sort is stable).
RECURSIVE SortByScore(_, _)
SortByScore(scored, n) ==
  IF n = 0 THEN << >>
  ELSE InsertByScore(SortByScore(scored, n - 1), scored[n])

\* scored.slice(0, limit)
Slice(sorted, limit) ==
  SubSeq(sorted, 1, IF limit < Len(sorted) THEN limit ELSE Len(sorted))

\* The results of searchEntitiesFuzzy(args) (server.js 2462-2463).
SearchResults(list, ents, ars, devs, args) ==
  LET scored == Scored(EntriesOrder(list, ents), ents, ars, devs, args, 1)
  IN Slice(SortByScore(scored, Len(scored)),
           IF args.limit = NoLimit THEN DefaultLimit ELSE args.limit)

\* ---- the registries and queries searched --------------------------------

FanFan == <<"f", "a", "n", ".", "f", "a", "n">>
OfficLigt == <<"o", "f", "f", "i", "c", " ", "l", "i", "g", "t">>

\* An entity of this.entities with its state (server.js 231-239).
StateEntity(id, friendly, area, state) ==
  [entity_id |-> id, friendly_name |-> friendly, area_id |-> area,
   floor |-> Undefined, device_id |-> Undefined, state |-> state]

\* The tube of the example; three entities called 'Fan', one of them
\* unavailable; a fan without a display name; a fan called 'Fan fan fan
\* fan'.
SearchPool ==
  { StateEntity(OfficeTube, OfficeLights, A2, "on"),
    StateEntity(FanOff, <<"F", "a", "n">>, Undefined, "off"),
    StateEntity(LedFan, <<"F", "a", "n">>, A2, "on"),
    StateEntity(LedTv, <<"F", "a", "n">>, Undefined, "unavailable"),
    StateEntity(FanBed, Undefined, A1, "on"),
    StateEntity(FanFan, <<"F", "a", "n", " ", "f", "a", "n", " ", "f", "a", "n", " ", "f", "a", "n">>, A1, "on") }

\* limit: integer, minimum 1 (server.js 752-758), or left out.
Limits == {NoLimit, 1, 2, 5}

\* The arguments of search_entities_fuzzy (server.js 744-769).
SearchQueries ==
  [query : {Undefined, <<"f", "a", "n">>, OfficLigt},
   limit : Limits,
   domain_hint : {Undefined, <<"f", "a", "n">>},
   area_hint : {Undefined, <<"b", "e", "d", "r", "o", "o", "m">>}]

\* A call of searchEntitiesFuzzy(args): it throws without a query
\* (server.js 2327-2329), else answers with the results.
SearchEntitiesFuzzy(args) ==
  /\ lookup = NoLookup
  /\ lookup' = [op |-> "search", args |-> args,
                threw |-> Falsy(args.query),
                results |-> IF Falsy(args.query) THEN << >>
                            ELSE SearchResults(registry, entities, areas,
                                               devices, args)]
  /\ UNCHANGED <<impl, entities, nameIndex, areas, devices, pending, registry,
                 cacheVars, serverVars>>

NextSearch ==
  \/ \E list \in ListsOver(SearchPool) : SetEntities(list)
  \/ \E list \in AreaLists : SetAreas(list)
  \/ \E args \in SearchQueries : SearchEntitiesFuzzy(args)
  \/ Respond

SpecSearch == InitBridge /\ [][NextSearch]_vars

(***************************************************************************)
(* Claims about searchEntitiesFuzzy                                        *)
(***************************************************************************)

\* The score the search gives an entity of the registry for the call
\* being answered.
ScoreOf(id) == Score(areas, devices, id, entities[id], lookup.args)

\* The place of an entity in the results, 0 when it is not among them.
PlaceOf(id) ==
  IF \E i \in 1..Len(lookup.results) : lookup.results[i].entity_id = id
  THEN CHOOSE i \in 1..Len(lookup.results) : lookup.results[i].entity_id = id
  ELSE 0

\* The normalized display name (the id when there is none) and the
\* normalized id of an entity.
ShownAs(id) ==
  {normalizeName(IF Falsy(entities[id].friendly_name) THEN id
                 ELSE entities[id].friendly_name),
   normalizeName(id)}

\* C21 (as claimed): an entity whose normalized display name or id equals
\* the normalized query scores strictly more than, and is ranked before,
\* any entity that only starts with the query.
C21_ExactOutranksPrefix ==
  lookup.op = "search" /\ ~lookup.threw =>
    LET q == normalizeName(lookup.args.query)
        Exact(id) == q \in ShownAs(id)
        PrefixOnly(id) == /\ ~Exact(id)
                          /\ \E n \in ShownAs(id) : startsWith(n, q)
    IN \A e \in DOMAIN entities, p \in DOMAIN entities :
         Exact(e) /\ PrefixOnly(p) =>
           /\ ScoreOf(e) > ScoreOf(p)
           /\ PlaceOf(p) # 0 => PlaceOf(e) # 0 /\ PlaceOf(e) < PlaceOf(p)

\* C22: with light.sam_office_tube, called 'office lights' and neither
\* unavailable nor unknown, in the registry, search('offic ligt', limit 5)
\* returns it first, with a score of at least 100 and relevance 'high' or
\* 'medium'.
C22_TypoSearch ==
  ( /\ lookup.op = "search"
    /\ lookup.args = [query |-> OfficLigt, limit |-> 5,
                      domain_hint |-> Undefined, area_hint |-> Undefined]
    /\ OfficeTube \in DOMAIN entities )
  => /\ Len(lookup.results) >= 1
     /\ lookup.results[1].entity_id = OfficeTube
     /\ lookup.results[1].score >= 100
     /\ lookup.results[1].relevance \in {"high", "medium"}

\* C22 witness: the search of the example, in a registry of the tube and
\* one more entity, has put the tube first.
C22_Witness ==
  /\ lookup.op = "search"
  /\ lookup.args = [query |-> OfficLigt, limit |-> 5,
                    domain_hint |-> Undefined, area_hint |-> Undefined]
  /\ Cardinality(DOMAIN entities) = 2
  /\ Len(lookup.results) >= 1
  /\ lookup.results[1].entity_id = OfficeTube
  /\ lookup.results[1].relevance = "medium"

\* C23: the results are entities of positive score, each once, at most
\* limit of them, in descending order of score, entities of equal score in
\* the order of the registry, and an entity left out either has no
\* positive score or the list is full and its last score is not smaller.
C23_ResultList ==
  lookup.op = "search" /\ ~lookup.threw =>
    LET results == lookup.results
        limit == IF lookup.args.limit = NoLimit THEN DefaultLimit
                 ELSE lookup.args.limit
        At(id) == CHOOSE i \in 1..Len(registry) : registry[i].entity_id = id
    IN /\ Len(results) <= limit
       /\ \A i \in 1..Len(results) :
            /\ results[i].entity_id \in DOMAIN entities
            /\ results[i].score = ScoreOf(results[i].entity_id)
            /\ results[i].score > 0
       /\ \A i, j \in 1..Len(results) :
            i < j => \/ results[i].score > results[j].score
                     \/ /\ results[i].score = results[j].score
                        /\ At(results[i].entity_id) < At(results[j].entity_id)
       /\ \A id \in DOMAIN entities :
            PlaceOf(id) = 0 =>
              \/ ScoreOf(id) <= 0
              \/ /\ Len(results) = limit
                 /\ ScoreOf(id) <= results[limit].score

\* C23 witness: a search has returned two entities of equal score, in the
\* order of the registry.
C23_Witness ==
  /\ lookup.op = "search"
  /\ Len(lookup.results) = 2
  /\ lookup.results[1].score = lookup.results[2].score
  /\ registry[1].entity_id = lookup.results[1].entity_id

(***************************************************************************)
(* Part 7.  The tool boundary: the CallTool request handlers of the        *)
(* server (src/src/lib/ha-client.ts 191-218) and of the bridge (server.js  *)
(* 878-970), and the control tools behind them.  A handler runs to its     *)
(* first await in one step; the remote call it waits for is a suspended    *)
(* call of ops until Home Assistant answers.                               *)
(***************************************************************************)

\* The tools of the server that are followed here, and those of the bridge.
TsTools == {"control_light", "control_fan"}

BridgeTools == {"HassTurnOn", "HassLightSet"}

\* The names a client may ask for: the tools above and one no server has.
ToolNames == TsTools \cup BridgeTools \cup {"no_such_tool"}

\* The registry the tools resolve against.
ToolPool ==
  { Entity(FanOff, <<"F", "a", "n">>, Undefined, Undefined, Undefined),
    Entity(LedTv, Undefined, Undefined, Undefined, Undefined) }

\* The arguments of a control tool: an explicit id, a name that resolves,
\* a name that does not, a name in the entity_id property, nothing.
ToolArgs ==
  { [entity_id |-> e, name |-> n, area |-> Undefined, floor |-> Undefined,
     domain |-> Undefined] :
      <<e, n>> \in { <<FanOff, Undefined>>,
                     <<Undefined, <<"F", "a", "n">> >>,
                     <<Undefined, <<"z", "z">> >>,
                     <<<<"z", "z">>, Undefined>>,
                     <<Undefined, Undefined>> } }

\* !entityId
Unresolved(r) == r = NotFound \/ Falsy(r)

\* search.findEntityByName(name): an entity of the registry, or nothing;
\* nothing can be found in an empty registry.
FindEntityByName(ents, name) == {Undefined} \cup DOMAIN ents

\* The answer of the request handler: a result payload ("result"), an
\* error payload ("error"), or the rejection of the handler's promise
\* ("rejected"); resolved: the identifier resolution returned, NotFound
\* for none; called: a remote call was made.
ToolRet(tool, args, outcome, resolved, called) ==
  [op |-> "callTool", tool |-> tool, args |-> args, outcome |-> outcome,
   resolved |-> resolved, called |-> called]

\* The handler answers in this step.
Answer(tool, args, outcome, resolved) ==
  /\ ret' = ToolRet(tool, args, outcome, resolved, FALSE)
  /\ ops' = ops

\* await haClient.callService(domain, action, data, {entity_id: target})
\* (part_007 192, 398); await fetch(url, {method: "POST", ...}) (server.js
\* 1073).
CallService(tool, args, target, resolved) ==
  /\ CanSuspend
  /\ ops' = Suspend([kind |-> "tool", tool |-> tool, args |-> args,
                     phase |-> "callService", target |-> target,
                     resolved |-> resolved])
  /\ ret' = NoRet

\* control_light (part_007 174-200): resolve, throw when nothing is
\* resolved, else call the service.
ControlLight(args) ==
  LET r == resolveEntityId("ts", entities, nameIndex, areas,
                           [args EXCEPT !.domain = <<"l", "i", "g", "h", "t">>])
  IN IF Unresolved(r) THEN Answer("control_light", args, "error", NotFound)
     ELSE CallService("control_light", args, r, r)

\* control_fan (part_007 388-411): an entity_id without '.' is looked up
\* by name and kept as it is when nothing is found; a missing entity_id
\* makes entityId.includes throw.
ControlFan(args) ==
  IF args.entity_id = Undefined
  THEN Answer("control_fan", args, "error", NotFound)
  ELSE IF includes(args.entity_id, <<".">>)
       THEN CallService("control_fan", args, args.entity_id, args.entity_id)
       ELSE \E found \in FindEntityByName(entities, args.entity_id) :
              IF found = Undefined
              THEN CallService("control_fan", args, args.entity_id, NotFound)
              ELSE CallService("control_fan", args, found, found)

\* throw new Error(`Unknown tool: ...`) before the try of the server's
\* handler (ha-client.ts 192-195): the handler's promise is rejected.
UnknownToolRejects(tool, args) == Answer(tool, args, "rejected", NotFound)

\* throw new Error(`Unknown tool: ...`) inside the try of the bridge's
\* handler (server.js 956-957): caught, answered with an error payload.
UnknownTool(tool, args) == Answer(tool, args, "error", NotFound)

\* The CallTool handler of the server (ha-client.ts 191-218): the tool is
\* looked up and an unknown name thrown before the try; what the tool's
\* handler throws is caught and answered with an error payload.
TsCallTool(tool, args) ==
  /\ impl = "ts"
  /\ \/ tool \notin TsTools /\ UnknownToolRejects(tool, args)
     \/ tool = "control_light" /\ ControlLight(args)
     \/ tool = "control_fan" /\ ControlFan(args)
  /\ UNCHANGED <<now, memoryCache, disk, refreshTimers, lastSet, resolverVars, serverVars>>

\* turnOn (server.js 1263-1275): resolve, throw when nothing is resolved,
\* else callService with the id, which resolves to itself and is posted.
HassTurnOn(args) ==
  LET r == resolveEntityId("js", entities, nameIndex, areas, args)
  IN IF Unresolved(r) THEN Answer("HassTurnOn", args, "error", NotFound)
     ELSE CallService("HassTurnOn", args, r, r)

\* The arguments setLight hands to callService (server.js 1151-1158).
LightArgs(args) ==
  [entity_id |-> Undefined, name |-> args.name, area |-> args.area,
   floor |-> args.floor, domain |-> <<"l", "i", "g", "h", "t">>]

\* setLight -> callService (server.js 1143-1159, 1060-1080): resolve; with
\* nothing resolved and a name or an area, rebuild the index first; else
\* post, with or without an entity_id.
HassLightSet(args) ==
  LET r == resolveEntityId("js", entities, nameIndex, areas, LightArgs(args))
  IN IF Unresolved(r) /\ (~Falsy(args.name) \/ ~Falsy(args.area))
     THEN /\ CanSuspend
          /\ ops' = Suspend([kind |-> "tool", tool |-> "HassLightSet",
                             args |-> args, phase |-> "rebuild"])
          /\ ret' = NoRet
     ELSE CallService("HassLightSet", args, r,
                      IF Unresolved(r) THEN NotFound ELSE r)

\* The CallTool handler of the bridge from its try on (server.js 906-970);
\* the wait for the index that precedes it (879-904) is WaitForIndex.
BridgeCallTool(tool, args) ==
  /\ impl = "js"
  /\ \/ tool \notin BridgeTools /\ UnknownTool(tool, args)
     \/ tool = "HassTurnOn" /\ HassTurnOn(args)
     \/ tool = "HassLightSet" /\ HassLightSet(args)
  /\ UNCHANGED <<now, memoryCache, disk, refreshTimers, lastSet, resolverVars, serverVars>>

\* await this.buildEntityIndex() has returned inside callService (server.js
\* 1064-1067): the index is rebuilt from the list p delivers, or left as
\* it is when the request failed (211-218, 281-283); the name is resolved
\* again and the service posted whatever came of it (1069-1080).
BridgeRebuilt(o, p) ==
  /\ o.kind = "tool" /\ o.phase = "rebuild"
  /\ LET st == IF p = Rejected
               THEN Building(entities, nameIndex, FALSE)
               ELSE Built("js", p.data)
         r == resolveEntityId("js", st.entities, st.nameIndex, areas,
                              LightArgs(o.args))
     IN /\ entities' = st.entities
        /\ nameIndex' = st.nameIndex
        /\ registry' = IF p = Rejected THEN registry ELSE p.data
        /\ indexReady' = IF p = Rejected THEN indexReady
                                         ELSE ReadyAfter("js", p.data)
        /\ ops' = Resume(o) (+) SetToBag({
                    [kind |-> "tool", tool |-> o.tool, args |-> o.args,
                     phase |-> "callService", target |-> r,
                     resolved |-> IF Unresolved(r) THEN NotFound ELSE r]})
  /\ ret' = NoRet
  /\ UNCHANGED <<now, memoryCache, disk, refreshTimers, lastSet, impl, areas,
                 devices, lookup, pending, transports>>

\* Home Assistant has carried out the service call: the tool returns its
\* result (part_007 199, server.js 1093-1103).
RemoteResolve(o) ==
  /\ o.kind = "tool" /\ o.phase = "callService"
  /\ ops' = Resume(o)
  /\ ret' = ToolRet(o.tool, o.args, "result", o.resolved, TRUE)
  /\ UNCHANGED <<now, memoryCache, disk, refreshTimers, lastSet, resolverVars, serverVars>>

\* The service call failed (a rejected callService; !response.ok, server.js
\* 1082-1084): the error is caught by the handler's catch and answered
\* with an error payload (ha-client.ts 207-217, server.js 959-968).
RemoteReject(o) ==
  /\ o.kind = "tool" /\ o.phase = "callService"
  /\ ops' = Resume(o)
  /\ ret' = ToolRet(o.tool, o.args, "error", o.resolved, TRUE)
  /\ UNCHANGED <<now, memoryCache, disk, refreshTimers, lastSet, resolverVars, serverVars>>

NextTools ==
  \/ \E list \in ListsOver(ToolPool) : SetEntities(list)
  \/ \E tool \in ToolNames, args \in ToolArgs : TsCallTool(tool, args)
  \/ \E tool \in ToolNames, args \in ToolArgs : BridgeCallTool(tool, args)
  \/ \E o \in Suspended, p \in {Rejected} \cup {Fetched(l) : l \in ListsOver(ToolPool)} :
       BridgeRebuilt(o, p)
  \/ \E o \in Suspended : RemoteResolve(o)
  \/ \E o \in Suspended : RemoteReject(o)

SpecTools == InitResolver /\ [][NextTools]_vars

(***************************************************************************)
(* Claims about the tool boundary                                          *)
(***************************************************************************)

\* A request that names its entity instead of giving its id.
NameBased(tool, args) ==
  \/ tool \in {"control_light", "HassTurnOn"}
       /\ Falsy(args.entity_id) /\ ~Falsy(args.name)
  \/ tool = "HassLightSet" /\ ~Falsy(args.name)
  \/ tool = "control_fan"
       /\ ~Falsy(args.entity_id) /\ ~includes(args.entity_id, <<".">>)

\* C28 (as claimed): a control tool issues its remote call only with an
\* identifier that resolution returned; a name-based request that resolves
\* to nothing makes no remote call and is answered with a failure.
C28_CallOnlyAfterResolution ==
  /\ \A o \in Suspended :
       o.kind = "tool" /\ o.phase = "callService" /\ NameBased(o.tool, o.args)
         => o.resolved # NotFound
  /\ ret.op = "callTool" /\ NameBased(ret.tool, ret.args)
       /\ ret.resolved = NotFound
         => ~ret.called /\ ret.outcome = "error"

\* C29 (as claimed): whatever fails while a tool call is served, an
\* entity that cannot be resolved, a remote call that fails, a tool name
\* the server does not have, the request handler answers with an error
\* payload and never rejects.
C29_ErrorsContained ==
  ret.op = "callTool" =>
    /\ ret.outcome \in {"result", "error"}
    /\ ret.tool = "no_such_tool" => ret.outcome = "error"

\* ---- one auto-refresh tick (cache.ts 105-112) ---------------------------

\* The step in which the interval timer of k fires.
TimerFired(k) ==
  /\ refreshTimers'[k] # Absent
  /\ refreshTimers'[k].fired
  /\ refreshTimers'[k] # refreshTimers[k]

\* The step in which the timer callback's fetch of k resolves.
RefreshFetched(k) ==
  InFlight(ops', "refresh", "write", k) > InFlight(ops, "refresh", "write", k)

Removed(k) ==
  /\ lastSet[k] = Absent
  /\ \A o \in Suspended :
       ~(o.kind = "invalidate" /\ o.key = k) /\ o.kind # "clear"

\* C31 (as claimed): once invalidate(k) has completed, and until a set(k)
\* is called after it, a get(k) that is called returns absent, even when an
\* earlier set(k) was still writing its file while invalidate ran.
C31_InvalidatedStaysAbsent ==
  [][ \A k \in Keys :
        Removed(k) /\ ret'.op = "get" /\ ret'.key = k /\ ops' = ops
          => ret'.val = Null ]_vars

\* C32 (as claimed): a get(k) called after set(k, v2) has returned, with no
\* set, invalidate or clear of k called since, never returns the value of
\* an earlier set(k, v1): it returns v2 or absent, whatever the ttls of the
\* two sets, whether or not the file of v2 was written, and in whatever
\* order the two writes landed.
C32_NoRollback ==
  ret.op = "get" /\ ret.expect # NoClaim /\ lastSet[ret.key] # Absent
    => ret.val \in {Null, lastSet[ret.key].rec.data}

(***************************************************************************)
(* Part 8.  The bridge's periodic index refresh (server.js 200-285 and     *)
(* 2532-2542)                                                              *)
(***************************************************************************)

\* One interval passes and the bridge's timer fires (2535-2541):
\* buildEntityIndex sends GET /api/states and suspends (203-209).  The
\* request has no timeout, so a build may still be waiting when the next
\* interval ends.  `at` is the time of the tick.
IndexTick ==
  /\ lookup = NoLookup
  /\ CanSuspend
  /\ now + REFRESH_INTERVAL <= MaxTicks * REFRESH_INTERVAL
  /\ now' = now + REFRESH_INTERVAL
  /\ ops' = Suspend([kind |-> "index", phase |-> "fetch", at |-> now'])
  /\ ret' = NoRet
  /\ UNCHANGED <<memoryCache, disk, refreshTimers, lastSet, resolverVars, serverVars>>

\* The states arrive (220): both maps are emptied and filled in one
\* synchronous stretch (223-257), then fetchAreas is awaited (268).  What
\* the loop throws ends the build in its catch (281-283).
IndexFetched(o, list) ==
  /\ lookup = NoLookup
  /\ o.kind = "index" /\ o.phase = "fetch"
  /\ entities' = Built(impl, list).entities
  /\ nameIndex' = Built(impl, list).nameIndex
  /\ registry' = IF Built(impl, list).threw THEN registry ELSE list
  /\ indexReady' = ReadyAfter(impl, list)
  /\ ops' = IF Built(impl, list).threw THEN Resume(o)
            ELSE Resume(o) (+) SetToBag({[o EXCEPT !.phase = "areas"]})
  /\ ret' = NoRet
  /\ UNCHANGED <<now, memoryCache, disk, refreshTimers, lastSet, impl, lookup,
                 areas, devices, pending, transports>>

\* The request failed or was answered with an error status (211-218,
\* 281-283): logged, the index stays.
IndexFetchFailed(o) ==
  /\ lookup = NoLookup
  /\ o.kind = "index" /\ o.phase = "fetch"
  /\ ops' = Resume(o)
  /\ ret' = NoRet
  /\ UNCHANGED <<now, memoryCache, disk, refreshTimers, lastSet, resolverVars, serverVars>>

\* fetchAreas has settled (286-301): the area map is replaced when the
\* registry answered; fetchDevices is awaited next (274).
IndexAreas(o, p) ==
  /\ lookup = NoLookup
  /\ o.kind = "index" /\ o.phase = "areas"
  /\ areas' = IF p.state = "ok" THEN MapOf(p.data, "area_id", Len(p.data))
              ELSE areas
  /\ ops' = Resume(o) (+) SetToBag({[o EXCEPT !.phase = "devices"]})
  /\ ret' = NoRet
  /\ UNCHANGED <<now, memoryCache, disk, refreshTimers, lastSet, impl, lookup,
                 entities, nameIndex, devices, pending, registry, serverVars>>

\* fetchDevices has settled (303-318); the index is saved to the bridge's
\* own cache file (280), which nothing here reads, and the build ends.
IndexDevices(o, p) ==
  /\ lookup = NoLookup
  /\ o.kind = "index" /\ o.phase = "devices"
  /\ devices' = IF p.state = "ok" THEN MapOf(p.data, "id", Len(p.data))
                ELSE devices
  /\ ops' = Resume(o)
  /\ ret' = NoRet
  /\ UNCHANGED <<now, memoryCache, disk, refreshTimers, lastSet, impl, lookup,
                 entities, nameIndex, areas, pending, registry, serverVars>>

\* The bridge refreshing its index every interval, with lookups by name in
\* between.
NextIndex ==
  \/ IndexTick
  \/ \E o \in Suspended, list \in ListsOver(ToolPool) : IndexFetched(o, list)
  \/ \E o \in Suspended : IndexFetchFailed(o)
  \/ \E o \in Suspended, list \in AreaLists :
       IndexAreas(o, Fetched(list)) \/ IndexAreas(o, Rejected)
  \/ \E o \in Suspended, list \in DeviceLists :
       IndexDevices(o, Fetched(list)) \/ IndexDevices(o, Rejected)
  \/ \E args \in NameQueries : ResolveEntityId(args)
  \/ Respond

SpecIndex == InitBridge /\ [][NextIndex]_vars

\* C33 (as claimed): the list fetched by an earlier tick is never put in
\* the index after the list fetched by a later tick: when the states of a
\* tick arrive, no build of a later tick has already rebuilt the index.
C33_TickOrder ==
  [][ \A o \in Suspended :
        /\ o.kind = "index" /\ o.phase = "fetch"
        /\ ops' = Resume(o) (+) SetToBag({[o EXCEPT !.phase = "areas"]})
        => \A p \in Suspended :
             p.kind = "index" /\ p.phase # "fetch" => p.at < o.at ]_vars

(***************************************************************************)
(* Part 9.  The interval timers of the runtime (cache.ts 90-115, 128-153)  *)
(***************************************************************************)

\* Here the timers that setInterval has started and clearInterval has not
\* stopped are kept apart from the map refreshTimers that records them:
\* a live timer is a pending entry of the event loop, held in `ops`.

\* The Timeout object that setInterval returns (105-112).
Handle(k, fn, interval, next) ==
  [kind |-> "timer", key |-> k, phase |-> "live", fn |-> fn,
   interval |-> interval, next |-> next]

LiveTimers == {o \in Suspended : o.kind = "timer"}

\* The calls that are suspended, the timers aside.
Calls == BagCardinality(ops) - BagCardinality([t \in LiveTimers |-> ops[t]])

\* (a registration that leaves the old timer running)
ClearIntervalSkipped(b, h) == b

\* clearInterval(h) (101, 133, 150): the timer is stopped; nothing happens
\* when there is none.
ClearInterval(b, h) == IF h = Absent THEN b ELSE b (-) SetToBag({h})

\* clearInterval on every recorded timer (132-134, 149-151).
RECURSIVE ClearAll(_, _)
ClearAll(b, K) ==
  IF K = {} THEN b
  ELSE LET k == CHOOSE x \in K : TRUE
       IN ClearAll(ClearInterval(b, refreshTimers[k]), K \ {k})

\* Time passes; a live timer whose time has come fires first.
TickLive ==
  /\ now + TickMs <= MaxTime
  /\ \A t \in LiveTimers : now < t.next
  /\ now' = now + TickMs
  /\ ret' = NoRet
  /\ UNCHANGED <<memoryCache, disk, refreshTimers, ops, lastSet, resolverVars, serverVars>>

\* registerAutoRefresh(key, fetchFn, interval) (90-115): the recorded
\* timer of the key is stopped (99-102), a new one started (105-112) and
\* recorded (114).
RegisterLive(k, fn, interval) ==
  /\ LET h == Handle(k, fn, interval, now + interval)
     IN /\ ops' = ClearInterval(ops, refreshTimers[k]) (+) SetToBag({h})
        /\ refreshTimers' = [refreshTimers EXCEPT ![k] = h]
  /\ ret' = NoRet
  /\ UNCHANGED <<now, memoryCache, disk, lastSet, resolverVars, serverVars>>

\* A live timer fires: its callback runs up to `await fetchFn()` (105-107)
\* with the fetch function it was started with, and the timer is set for
\* its next interval.
LiveFire(t) ==
  /\ t.kind = "timer" /\ t.next <= now
  /\ Calls < MaxOps
  /\ LET later == [t EXCEPT !.next = t.next + t.interval]
     IN /\ ops' = (ops (-) SetToBag({t})) (+) SetToBag({later}) (+)
                  SetToBag({[kind |-> "refresh", key |-> t.key,
                             phase |-> "fetch", fn |-> t.fn, cut |-> "no"]})
        /\ refreshTimers' = [k \in Keys |-> IF refreshTimers[k] = t THEN later
                                             ELSE refreshTimers[k]]
  /\ ret' = NoRet
  /\ UNCHANGED <<now, memoryCache, disk, lastSet, resolverVars, serverVars>>

\* clear() up to its first await (128-139): memory is emptied, every
\* recorded timer stopped and the map emptied; fs.readdir is awaited.
ClearLive ==
  /\ Calls < MaxOps
  /\ memoryCache' = [k \in Keys |-> Absent]
  /\ ops' = ClearAll(Stopped("clear"), Keys) (+)
            SetToBag({[kind |-> "clear", key |-> "", phase |-> "readdir"]})
  /\ refreshTimers' = Cancelled
  /\ lastSet' = [k \in Keys |-> Absent]
  /\ ret' = NoRet
  /\ UNCHANGED <<now, disk, resolverVars, serverVars>>

\* shutdown() (148-153): every recorded timer is stopped and the map
\* emptied.
ShutdownLive ==
  /\ ops' = ClearAll(Stopped("shutdown"), Keys)
  /\ refreshTimers' = Cancelled
  /\ ret' = Returned("shutdown", "", Null, FALSE, FALSE, NoClaim)
  /\ UNCHANGED <<now, memoryCache, disk, lastSet, resolverVars, serverVars>>

\* Timers registered and registered again, firing, and stopped by clear
\* and shutdown at any moment.
NextTimers ==
  \/ TickLive
  \/ \E fn \in FetchFns : RegisterLive("entities", fn, TickMs)
  \/ RegisterLive("devices", "ok", REFRESH_INTERVAL)
  \/ \E t \in Suspended : LiveFire(t)
  \/ \E o \in Suspended : FetchResolve(o, 2)
  \/ \E o \in Suspended : FetchReject(o)
  \/ \E o \in Suspended : WriteDone(o)
  \/ ClearLive
  \/ \E o \in Suspended : ReaddirDone(o)
  \/ \E o \in Suspended : ClearDone(o)
  \/ ShutdownLive

SpecTimers == Init /\ [][NextTimers]_vars

\* The live timers are the recorded ones, one per key at most.
OneTimerPerKey ==
  /\ \A k \in Keys :
       refreshTimers[k] # Absent => CopiesIn(refreshTimers[k], ops) = 1
  /\ \A t \in LiveTimers : refreshTimers[t.key] = t

\* C34: in every state the live interval timers are exactly those recorded
\* in refreshTimers, at most one per key; a tick starts the fetch function
\* of the latest registration of its key and of no other; and once clear
\* or shutdown has emptied the map no timer is live.
C34_OneTimerPerKey ==
  [][ /\ OneTimerPerKey'
      /\ \A k \in Keys :
           InFlight(ops', "refresh", "fetch", k) > InFlight(ops, "refresh", "fetch", k)
             => /\ refreshTimers[k] # Absent
                /\ ops' (-) ops =
                     SetToBag({[refreshTimers[k] EXCEPT
                                  !.next = refreshTimers[k].next + refreshTimers[k].interval]})
                     (+)
                     SetToBag({[kind |-> "refresh", key |-> k, phase |-> "fetch",
                                fn |-> refreshTimers[k].fn, cut |-> "no"]})
      /\ (\A k \in Keys : refreshTimers'[k] = Absent) => LiveTimers' = {} ]_vars

\* C34 witness: 'entities' was registered with a fetch that succeeds (its
\* refresh has stored the fetched value), then registered again with one
\* that fails; a tick has started the failing fetch and the one live
\* timer is the recorded one.
C34_Witness ==
  /\ disk["entities"] # Absent /\ disk["entities"].data = 2
  /\ refreshTimers["entities"] # Absent
  /\ refreshTimers["entities"].fn = "fail"
  /\ LiveTimers = {refreshTimers["entities"]}
  /\ \E o \in Suspended : o.kind = "refresh" /\ o.phase = "fetch" /\ o.fn = "fail"

(***************************************************************************)
(* Claims about the resolver's snapshot and its two implementations        *)
(***************************************************************************)

\* C35: after any sequence of setEntities / setAreas / setDevices, every
\* identifier the name index holds is a key of the entity map, and a
\* lookup without an explicit id returns not-found or the identifier of an
\* entity of the current snapshot.
C35_IndexWithinSnapshot ==
  /\ \A i \in 1..Len(nameIndex) :
       \A j \in 1..Len(nameIndex[i].ids) :
         nameIndex[i].ids[j] \in DOMAIN entities
  /\ lookup # NoLookup /\ Falsy(lookup.args.entity_id)
       => lookup.result = NotFound \/ lookup.result \in DOMAIN entities

\* C35 witness: a lookup by name, after the registry was replaced, has
\* returned an entity of the snapshot that two names lead to.
C35_Witness ==
  /\ lookup # NoLookup /\ Falsy(lookup.args.entity_id)
  /\ lookup.result \in DOMAIN entities
  /\ Len(nameIndex) > 2
  /\ Len(registry) = MaxEntities

\* An entity without a display name whose object id is a number.
Led7 == <<"l", "e", "d", ".", "7">>

Fan7 == <<"f", "a", "n", " ", "7">>

\* The registries the two implementations are compared on.
AgreePool ==
  { Entity(FanOff, <<"F", "a", "n">>, Undefined, Undefined, Undefined),
    Entity(FanBed, <<"F", "a", "n">>, A1, Up, Undefined),
    Entity(LedTv, Undefined, A1, Undefined, Undefined),
    Entity(Led7, Undefined, A2, Undefined, Undefined) }

\* The queries they are compared on.
AgreeQueries ==
  [entity_id : ExplicitIds,
   name : {Undefined, <<"F", "a", "n">>, Fan7, <<"t", "v">>},
   area : {Undefined, <<"b", "e", "d", "r", "o", "o", "m">>},
   floor : FloorHints,
   domain : {Undefined, <<"l", "e", "d">>}]

\* The same call made on each implementation, each over the structures
\* it builds from the registry and the areas in force.
ResolveBoth(args) ==
  /\ lookup = NoLookup
  /\ lookup' = [op |-> "resolveBoth", args |-> args,
                ts |-> resolveEntityId("ts", Built("ts", registry).entities,
                                       Built("ts", registry).nameIndex, areas, args),
                js |-> resolveEntityId("js", Built("js", registry).entities,
                                       Built("js", registry).nameIndex, areas, args)]
  /\ UNCHANGED <<impl, entities, nameIndex, areas, devices, pending, registry,
                 cacheVars, serverVars>>

NextAgree ==
  \/ \E list \in ListsOver(AgreePool) : SetEntities(list)
  \/ \E list \in AreaLists : SetAreas(list)
  \/ lookup = NoLookup /\ \E args \in AgreeQueries : ResolveBoth(args)
  \/ Respond

SpecAgree == InitResolver /\ [][NextAgree]_vars

\* What a caller has in hand: an identifier, or nothing (null, undefined).
Found(r) == IF r \in {NotFound, Undefined} THEN NotFound ELSE r

\* C36 (as claimed): over the same entities and areas the TypeScript
\* resolver and the bridge's return the same result for every query,
\* those aside that have no explicit id, no name and an area.
C36_ImplementationsAgree ==
  lookup.op = "resolveBoth"
  /\ ~(Falsy(lookup.args.entity_id) /\ Falsy(lookup.args.name)
       /\ ~Falsy(lookup.args.area))
    => Found(lookup.ts) = Found(lookup.js)

(***************************************************************************)
(* Part 10.  The bridge's wait for its index (server.js 879-904)           *)
(***************************************************************************)

\* retries < 50 (900)
MaxRetries == 50

\* setTimeout(resolve, 100) (901)
PollMs == 100

\* The tools that wait for the index (883-897).
IndexTools ==
  {"HassTurnOn", "HassTurnOff", "HassLightSet", "admin_debug", "get_history",
   "get_entity_baseline", "explore_entities", "get_entity_relationships",
   "get_home_topology", "get_device_health", "search_entities_fuzzy"}

\* The calls that arrive: a search, and a tool the bridge does not have.
WaitCalls ==
  {[tool |-> "search_entities_fuzzy",
    args |-> [query |-> <<"f", "a", "n">>, limit |-> NoLimit,
              domain_hint |-> Undefined, area_hint |-> Undefined]],
   [tool |-> "no_such_tool",
    args |-> [query |-> Undefined, limit |-> NoLimit,
              domain_hint |-> Undefined, area_hint |-> Undefined]]}

\* (a loop that allows one timeout more)
KeepWaitingOneMore(retries) == ~indexReady /\ retries <= MaxRetries

\* while (!this.indexReady && retries < 50) (900)
KeepWaiting(retries) == ~indexReady /\ retries < MaxRetries

\* A call suspended in the wait loop, after `retries` timeouts.
Waiting(call, retries) ==
  [kind |-> "tool", tool |-> call.tool, args |-> call.args, phase |-> "wait",
   retries |-> retries]

\* The call enters the try (906): the search answers in the same task
\* (953-954, 2324-2510), an error payload when it throws (958-968); a
\* name that is no case of the switch throws (956-957).  retries, waited
\* and ready are history: the timeouts the call sat through, their
\* duration, and the flag when it was dispatched.
Dispatch(call, retries, rest) ==
  /\ ret' = [op |-> "callTool", tool |-> call.tool, args |-> call.args,
             outcome |-> IF call.tool = "search_entities_fuzzy"
                            /\ ~Falsy(call.args.query)
                         THEN "result" ELSE "error",
             results |-> IF call.tool = "search_entities_fuzzy"
                            /\ ~Falsy(call.args.query)
                         THEN SearchResults(registry, entities, areas, devices,
                                            call.args)
                         ELSE << >>,
             retries |-> retries, waited |-> retries * PollMs,
             ready |-> indexReady]
  /\ ops' = rest

\* A tool call arrives (879-904): a tool of the list, while the index is
\* not ready, awaits its first timeout; any other call goes on at once.
WaitForIndex(call) ==
  /\ lookup = NoLookup
  /\ IF ~indexReady /\ call.tool \in IndexTools /\ KeepWaiting(0)
     THEN /\ CanSuspend
          /\ ops' = Suspend(Waiting(call, 0))
          /\ ret' = NoRet
     ELSE Dispatch(call, 0, ops)
  /\ UNCHANGED <<now, memoryCache, disk, refreshTimers, lastSet, resolverVars,
                 serverVars>>

\* A timeout of a waiting call has run out (901-902): retries++, and the
\* loop goes on while the index is not ready and retries < 50.
Poll(o) ==
  /\ o \in Suspended
  /\ o.kind = "tool" /\ o.phase = "wait"
  /\ IF KeepWaiting(o.retries + 1)
     THEN /\ ops' = Resume(o) (+) SetToBag({[o EXCEPT !.retries = o.retries + 1]})
          /\ ret' = NoRet
     ELSE Dispatch([tool |-> o.tool, args |-> o.args], o.retries + 1, Resume(o))
  /\ UNCHANGED <<now, memoryCache, disk, refreshTimers, lastSet, resolverVars,
                 serverVars>>

\* Tool calls arriving while the index is being built, or never is; the
\* builds that follow the first that succeeded are left out.
NextWait ==
  \/ ~indexReady /\ IndexTick
  \/ \E o \in Suspended : IndexFetched(o, <<StateEntity(FanOff, <<"F", "a", "n">>, Undefined, "on")>>)
  \/ \E o \in Suspended : IndexFetchFailed(o)
  \/ \E o \in Suspended : IndexAreas(o, Rejected)
  \/ \E o \in Suspended : IndexDevices(o, Rejected)
  \/ \E call \in WaitCalls : WaitForIndex(call)
  \/ \E o \in Suspended : Poll(o)

SpecWait == InitBridge /\ [][NextWait]_vars

\* Every timeout that is set runs out.  The timeout of a call that waits the longest runs out: the call goes
\* round the loop once more or leaves it (a step of Poll).
TimeoutRuns ==
  \E o \in Suspended :
    /\ o.kind = "tool" /\ o.phase = "wait"
    /\ \A p \in Suspended :
         p.kind = "tool" /\ p.phase = "wait" => p.retries <= o.retries
    /\ ops' \in {Resume(o),
                 Resume(o) (+) SetToBag({[o EXCEPT !.retries = o.retries + 1]})}

TimeoutsFire == WF_ops(TimeoutRuns)

SpecWaitLive == SpecWait /\ TimeoutsFire

\* The calls suspended in the wait loop.
Waiters == {o \in Suspended : o.kind = "tool" /\ o.phase = "wait"}

\* C37: a call of an index-dependent tool that arrives while indexReady is
\* false sits through at most 50 timeouts of 100 ms and is dispatched
\* when the flag is set or after the 50th, ready or not; a call that
\* arrives when indexReady is true, or of another tool, is dispatched at
\* once; and every call that waits is answered in the end, even if the
\* index is never built.
C37_BoundedWait ==
  /\ [](/\ \A o \in Waiters : o.retries < MaxRetries /\ o.tool \in IndexTools
        /\ ret.op = "callTool" =>
             /\ ret.retries <= MaxRetries
             /\ ret.waited <= MaxRetries * PollMs
             /\ ret.retries < MaxRetries /\ ret.retries > 0 => ret.ready
             /\ ret.tool \notin IndexTools => ret.retries = 0)
  /\ [][ indexReady => Waiters' \subseteq Waiters
                       /\ (ret'.op = "callTool" /\ ops' = ops => ret'.retries = 0) ]_vars
  /\ \A call \in {c \in WaitCalls : c.tool \in IndexTools} :
       (Waiting(call, 0) \in Suspended)
         ~> (ret.op = "callTool" /\ ret.tool = call.tool /\ ret.retries > 0)

\* C37 witness: the index was never built and a search that sat through
\* all 50 timeouts has been dispatched and answered.
C37_Witness ==
  /\ ret.op = "callTool" /\ ret.tool = "search_entities_fuzzy"
  /\ ret.retries = MaxRetries /\ ~ret.ready
  /\ ret.outcome = "result"

(***************************************************************************)
(* Part 11.  The sessions of the HTTP/SSE server (http-server.ts).         *)
(* transports is a plain object keyed by the session id of each SSE        *)
(* stream; a timer runs cleanupStaleTransports once a minute.              *)
(***************************************************************************)

TRANSPORT_TIMEOUT_MS == 300000

\* The clock of the session model runs past the timeout.
MaxSessionTime == TRANSPORT_TIMEOUT_MS + MaxTicks * TickMs

\* transport.sessionId of the streams that are opened (a random UUID).
SessionIds == {<<"a">>, <<"b">>}

\* A name every plain object inherits from Object.prototype.
ConstructorKey == <<"c", "o", "n", "s", "t", "r", "u", "c", "t", "o", "r">>

\* The property names an empty {} answers with a value that is not its own.
InheritedKeys == {ConstructorKey}

\* req.query.sessionId of the POSTs that arrive: none, empty, the ids of
\* streams, an id of no stream, and an inherited name.
PostIds == {Undefined, << >>, <<"z">>} \cup SessionIds \cup InheritedKeys

\* What Object.prototype holds under an inherited name (a function).
ObjectMember == [inherited |-> TRUE]

\* The undefined that transports[sessionId] is for a name {} does not have.
NoEntry == [undefined |-> TRUE]

\* transports[sessionId]
TransportEntry(sessionId) ==
  IF sessionId \in DOMAIN transports THEN transports[sessionId]
  ELSE IF sessionId \in InheritedKeys THEN ObjectMember
  ELSE NoEntry

\* now - entry.lastActivity > TRANSPORT_TIMEOUT_MS   (115)
Stale(entry) == now - entry.lastActivity > TRANSPORT_TIMEOUT_MS

\* delete transports[sessionId], for every id of a set.
DeleteAll(map, ids) == [s \in DOMAIN map \ ids |-> map[s]]

SessionTick ==
  /\ now + TickMs <= MaxSessionTime
  /\ now' = now + TickMs
  /\ ret' = NoRet
  /\ UNCHANGED <<memoryCache, disk, refreshTimers, ops, lastSet, resolverVars,
                 serverVars>>

\* GET /mcp (200-221): the entry is stored before server.connect is awaited,
\* and stays when connect throws.
GetMcp(sessionId, connected) ==
  /\ sessionId \in SessionIds \ DOMAIN transports
  /\ transports' = MapSet(transports, sessionId, [lastActivity |-> now])
  /\ ret' = [op |-> "GET /mcp", sessionId |-> sessionId,
             status |-> IF connected THEN 200 ELSE 500]
  /\ UNCHANGED <<now, memoryCache, disk, refreshTimers, ops, lastSet,
                 resolverVars, indexReady>>

\* POST /messages (224-250) up to the answer: 400, 404, the transport's own
\* answer, or 500 when the call of handlePostMessage throws.
PostMessages(sessionId, handled) ==
  LET entry == TransportEntry(sessionId)
  IN /\ IF Falsy(sessionId)
          THEN /\ ret' = [op |-> "POST /messages", sessionId |-> sessionId,
                          status |-> 400, reached |-> Undefined]
               /\ transports' = transports
          ELSE IF entry = NoEntry
          THEN /\ ret' = [op |-> "POST /messages", sessionId |-> sessionId,
                          status |-> 404, reached |-> Undefined]
               /\ transports' = transports
          ELSE IF entry = ObjectMember
          \* lastActivity is written on the inherited object, and
          \* entry.transport is undefined: a TypeError, caught at 244.
          THEN /\ ret' = [op |-> "POST /messages", sessionId |-> sessionId,
                          status |-> 500, reached |-> Undefined]
               /\ transports' = transports
          ELSE /\ ret' = [op |-> "POST /messages", sessionId |-> sessionId,
                          status |-> IF handled THEN 202 ELSE 500,
                          reached |-> sessionId]
               /\ transports' = [transports EXCEPT ![sessionId].lastActivity = now]
     /\ UNCHANGED <<now, memoryCache, disk, refreshTimers, ops, lastSet,
                    resolverVars, indexReady>>

\* cleanupStaleTransports (111-125): close() runs onclose, which deletes
\* the entry that line 122 deletes again.
CleanupStaleTransports ==
  LET stale == {s \in DOMAIN transports : Stale(transports[s])}
  IN /\ transports' = DeleteAll(transports, stale)
     /\ ret' = [op |-> "cleanup", closed |-> stale]
     /\ UNCHANGED <<now, memoryCache, disk, refreshTimers, ops, lastSet,
                    resolverVars, indexReady>>

\* transport.onclose (207-210), when the client ends the stream.
TransportClosed(sessionId) ==
  /\ sessionId \in DOMAIN transports
  /\ transports' = DeleteAll(transports, {sessionId})
  /\ ret' = NoRet
  /\ UNCHANGED <<now, memoryCache, disk, refreshTimers, ops, lastSet,
                 resolverVars, indexReady>>

\* Streams opened, used and closed while the cleanup timer runs; a pass may
\* run at any time.
NextSessions ==
  \/ SessionTick
  \/ \E s \in SessionIds, connected \in BOOLEAN : GetMcp(s, connected)
  \/ \E s \in PostIds, handled \in BOOLEAN : PostMessages(s, handled)
  \/ CleanupStaleTransports
  \/ \E s \in SessionIds : TransportClosed(s)

SpecSessions == Init /\ [][NextSessions]_vars

\* A cleanup pass closes and removes exactly the entries that are stale.
CleanupExact ==
  ret'.op = "cleanup" =>
    /\ \A s \in DOMAIN transports :
         s \in DOMAIN transports' <=> ~Stale(transports[s])
    /\ DOMAIN transports' \subseteq DOMAIN transports
    /\ ret'.closed = DOMAIN transports \ DOMAIN transports'

\* A POST for a session of the map resets its last activity and reaches
\* its transport.
PostResets ==
  \A s \in DOMAIN transports :
    ret'.op = "POST /messages" /\ ret'.sessionId = s =>
      /\ transports'[s].lastActivity = now
      /\ ret'.reached = s

\* A POST for no session of the map is answered 400 or 404, reaches no
\* transport and leaves the map as it was.
PostUnknown ==
  ret'.op = "POST /messages" /\ ret'.sessionId \notin DOMAIN transports =>
    /\ ret'.status \in {400, 404}
    /\ ret'.reached = Undefined
    /\ transports' = transports

\* C38: a cleanup pass closes and removes exactly the sessions whose last
\* activity is more than 5 minutes old; a POST for a known session resets
\* its last activity, so a session with a POST at least every 5 minutes is
\* never removed by cleanup; a POST without a sessionId or for an unknown
\* one is answered 400 or 404, reaches no transport and leaves the map
\* unchanged.
C38_StaleSessionCleanup ==
  [][CleanupExact /\ PostResets /\ PostUnknown]_vars

(***************************************************************************)
(* Part 12.  Bearer authentication of the HTTP/SSE server (authMiddleware, *)
(* http-server.ts 81-108) and the routes it stands in front of.            *)
(***************************************************************************)

\* 'Bearer '
BearerPrefix == <<"B", "e", "a", "r", "e", "r", " ">>

True == <<"t", "r", "u", "e">>

\* process.env.REQUIRE_AUTH as the process may find it.
RequireAuthEnv == {Undefined, True, <<"1">>, <<"f", "a", "l", "s", "e">>}

\* process.env.BEARER_TOKEN as the process may find it.
BearerTokenEnv == {Undefined, << >>, <<"k">>, <<"k", "2">>}

\* req.headers.authorization of the requests that arrive.
AuthHeaders ==
  {Undefined, << >>, <<"k">>, <<"B", "e", "a", "r", "e", "r">>,
   <<"B", "a", "s", "i", "c", " ", "k">>,
   <<"b", "e", "a", "r", "e", "r", " ", "k">>,
   BearerPrefix, BearerPrefix \o <<"k">>, BearerPrefix \o <<"k", "2">>,
   BearerPrefix \o <<" ", "k">>, BearerPrefix \o <<"k", "2", "2">>}

Routes == {"/health", "/mcp", "/messages"}

\* process.env.REQUIRE_AUTH === 'true'   (28)
REQUIRE_AUTH(env) == env = True

\* process.env.BEARER_TOKEN || ''   (27)
BEARER_TOKEN(env) == IF Falsy(env) THEN << >> ELSE env

\* String.prototype.substring(start), start within the string.
substring(s, start) == SubSeq(s, start + 1, Len(s))

\* (a test that takes any header that is there for a Bearer one)
AnyScheme(authHeader) == ~Falsy(authHeader)

\* !(!authHeader || !authHeader.startsWith('Bearer '))   (96)
BearerScheme(authHeader) ==
  ~Falsy(authHeader) /\ startsWith(authHeader, BearerPrefix)

\* authMiddleware (81-108): "next" when it calls next(), else the status it
\* answers with.
authMiddleware(requireAuth, bearerToken, authHeader) ==
  IF ~requireAuth THEN "next"
  ELSE IF Falsy(bearerToken) THEN "500"
  ELSE IF ~BearerScheme(authHeader) THEN "401"
  ELSE IF substring(authHeader, Len(BearerPrefix)) # bearerToken THEN "403"
  ELSE "next"

\* The handler express runs for a request, "none" when the middleware has
\* answered it: /health has no middleware (190), /mcp and /messages have
\* authMiddleware in front (200, 224).
Handler(route, outcome) ==
  IF route = "/health" \/ outcome = "next" THEN route ELSE "none"

\* A request arrives at a process started with the given environment.
Request(route, requireEnv, tokenEnv, authHeader) ==
  LET outcome == IF route = "/health" THEN "next"
                 ELSE authMiddleware(REQUIRE_AUTH(requireEnv),
                                     BEARER_TOKEN(tokenEnv), authHeader)
  IN /\ ret' = [op |-> "request", route |-> route,
                requireAuth |-> REQUIRE_AUTH(requireEnv),
                bearerToken |-> BEARER_TOKEN(tokenEnv),
                authorization |-> authHeader,
                outcome |-> outcome, handler |-> Handler(route, outcome)]
     /\ UNCHANGED <<now, memoryCache, disk, refreshTimers, ops, lastSet,
                    resolverVars, serverVars>>

NextAuth ==
  \E route \in Routes, requireEnv \in RequireAuthEnv,
     tokenEnv \in BearerTokenEnv, authHeader \in AuthHeaders :
    Request(route, requireEnv, tokenEnv, authHeader)

SpecAuth == Init /\ [][NextAuth]_vars

\* C39: with REQUIRE_AUTH true, the handlers of /mcp and /messages run
\* only for a request whose Authorization header is 'Bearer ' followed by
\* exactly the configured token; a missing or non-Bearer header is answered
\* 401, another token 403, and every request 500 when no token is
\* configured; with REQUIRE_AUTH false every request passes; a request has
\* exactly one of these outcomes, and /health is served whatever the
\* header.
C39_BearerAuthentication ==
  ret.op = "request" =>
    LET configured == ret.bearerToken # << >>
        header == ret.authorization
        bearer == header # Undefined /\ Len(header) >= Len(BearerPrefix)
                  /\ \A i \in 1..Len(BearerPrefix) : header[i] = BearerPrefix[i]
        right == header # Undefined /\ header = BearerPrefix \o ret.bearerToken
    IN IF ret.route = "/health"
       THEN ret.handler = "/health"
       ELSE /\ ret.outcome \in {"next", "401", "403", "500"}
            /\ ret.handler = (IF ret.outcome = "next" THEN ret.route ELSE "none")
            /\ ~ret.requireAuth => ret.outcome = "next"
            /\ ret.requireAuth =>
                 /\ ret.outcome = "next" <=> configured /\ right
                 /\ ret.outcome = "500" <=> ~configured
                 /\ ret.outcome = "401" <=> configured /\ ~bearer
                 /\ ret.outcome = "403" <=> configured /\ bearer /\ ~right

\* C39 witness: authentication is required and a token configured, and a
\* request to /messages with 'Bearer ' and a longer token was answered 403.
C39_Witness ==
  /\ ret.op = "request" /\ ret.route = "/messages"
  /\ ret.requireAuth /\ ret.bearerToken = <<"k", "2">>
  /\ ret.authorization = BearerPrefix \o <<"k", "2", "2">>
  /\ ret.outcome = "403" /\ ret.handler = "none"

====
